---- MODULE Spec2Model ----
(***************************************************************************)
(* A model of the firominer crypto core (libcrypto): the epoch-context     *)
(* registry of ethash.cpp, the lazily filled full dataset, the seed/epoch  *)
(* reverse lookup, and ProgPoW's verification front end.                   *)
(*                                                                         *)
(* Several specifications share the variables below.  Each one drives one  *)
(* part of the program and leaves the variables of the other parts at      *)
(* their initial values:                                                   *)
(*   SpecRegistry  threads calling get_epoch_context                       *)
(*   SpecHash      ethash::hash on a context built with full = true        *)
(*   SpecLookup    two threads inside hash_mix's lazy_lookup               *)
(*   SpecSeed      threads calling calculate_epoch_from_seed               *)
(*   SpecVerify    progpow::verify_full(block_number, ...)                 *)
(*   SpecKern      progpow::getKern for a program seed and a kernel kind   *)
(*   SpecShuffle   the constructor of mix_rng_state, step by step          *)
(*   SpecSizes     calculate_light_cache_num_items and                     *)
(*                 calculate_full_dataset_num_items                        *)
(*   SpecBoundary  get_boundary_from_diff                                  *)
(*   SpecItems     calculate_dataset_item_1024 and _2048                   *)
(*   SpecMix       progpow hash_mix, one round at a time                   *)
(*   SpecSources   the source registers of a random math operation         *)
(*   SpecMerge     random_merge and random_math on 32-bit operands         *)
(*   SpecContext   create_epoch_context and lookups in its L1 cache        *)
(*   SpecCompare   is_less_or_equal                                        *)
(*   SpecSponge    the sponge of keccak, block by block                    *)
(*   SpecSchedule  the registers a round draws, at the program's counts    *)
(*   SpecIndexes   the indexes a round computes                            *)
(*   SpecEthashVerify  ethash verify_full and verify_light                 *)
(*   SpecSubmit    SimulateClient::submitSolution                          *)
(*   SpecCompact   shiftLeft and from_compact                              *)
(***************************************************************************)
EXTENDS Integers, Sequences, FiniteSets, TLC

(***************************************************************************)
(* Bounds of the model.                                                    *)
(***************************************************************************)
MaxEpoch == 1     \* epochs requested are 0..MaxEpoch
MaxCtx == 2       \* epoch contexts constructed in one behaviour
MaxFail == 1      \* failed allocations (calloc returning null) in one behaviour

\* Two threads: one that builds a context and one that meets it.
Threads == {1, 2}
Epochs == 0..MaxEpoch
Null == 0
NoHandle == 0 - 1
NoThread == 0

VARIABLES
  \* ---- ethash.cpp, namespace detail: the context registry ----
  contexts,              \* every epoch_context constructed so far (the heap)
  shared_context,        \* std::shared_ptr<epoch_context> shared_context
  thread_local_context,  \* thread_local std::shared_ptr<epoch_context>
  shared_context_mutex,  \* std::mutex: the thread holding it, or NoThread
  pc,                    \* each thread's position inside get_epoch_context
  req,                   \* each thread's current (epoch_number, full) arguments
  handle,                \* the caller's variable receiving the returned handle
  how,                   \* history: the path the thread's current call took
  nFail                  \* history: failed allocations so far

regVars == <<contexts, shared_context, thread_local_context, shared_context_mutex,
             pc, req, handle, how, nFail>>

VARIABLES
  \* ---- ethash.cpp: one context built with full = true, and its users ----
  epoch_context,         \* the context: its light cache and its dataset memory
  lk,                    \* each thread's position inside lazy_lookup
  hm                     \* the last ethash::hash call: arguments and result

dsVars == <<epoch_context, lk, hm>>

VARIABLES
  \* ---- ethash.cpp: calculate_epoch_from_seed's thread-local cache ----
  cached_epoch_number,   \* std::optional<uint32_t> of each thread
  cached_epoch_seed,     \* hash256 of each thread
  es                     \* the last call: its argument and what it returned

seedVars == <<cached_epoch_number, cached_epoch_seed, es>>

VARIABLES
  \* ---- keccak.hpp (progpow): verification ----
  vf                     \* the last verify_full call: arguments and results

verifyVars == <<vf>>

VARIABLES
  \* ---- keccak.hpp (progpow): the random program ----
  kn,                    \* the last getKern call: arguments and the loop emitted
  fy                     \* a mix_rng_state under construction

progVars == <<kn, fy>>

VARIABLES
  \* ---- functions of their arguments alone ----
  un                     \* the last call: the function, its arguments, its result

unitVars == <<un>>

vars == <<regVars, dsVars, seedVars, verifyVars, progVars, unitVars>>
nonRegVars == <<dsVars, seedVars, verifyVars, progVars, unitVars>>
nonDsVars == <<regVars, seedVars, verifyVars, progVars, unitVars>>
nonSeedVars == <<regVars, dsVars, verifyVars, progVars, unitVars>>
nonVerifyVars == <<regVars, dsVars, seedVars, progVars, unitVars>>
nonProgVars == <<regVars, dsVars, seedVars, verifyVars, unitVars>>
nonUnitVars == <<regVars, dsVars, seedVars, verifyVars, progVars>>

(***************************************************************************)
(* std::shared_ptr: the control block's use count lives with the context.  *)
(* Dropping the last reference runs the deleter, destroy_epoch_context     *)
(* (ethash.cpp:269-273), which frees the context's memory.                 *)
(***************************************************************************)
destroy_epoch_context(ctx) == [ctx EXCEPT !.freed = TRUE]

SharedPtrReleaseLeaky(ctxs, c) ==
  IF c = Null THEN ctxs ELSE [ctxs EXCEPT ![c].refs = @ - 1]

SharedPtrRelease(ctxs, c) ==
  IF c = Null THEN ctxs
  ELSE LET dropped == [ctxs[c] EXCEPT !.refs = @ - 1]
       IN  [ctxs EXCEPT ![c] = IF dropped.refs = 0
                                THEN destroy_epoch_context(dropped)
                                ELSE dropped]

SharedPtrCopy(ctxs, c) ==
  IF c = Null THEN ctxs ELSE [ctxs EXCEPT ![c].refs = @ + 1]

\* What the registry reads of the context create_epoch_context returns
\* (ethash.cpp:258-260): its epoch_number, and whether full_dataset is set.
\* The new shared_ptr is its first owner.
NewContext(epoch_number, full) ==
  [epoch_number |-> epoch_number, full_dataset |-> full,
   refs |-> 1, freed |-> FALSE]

\* ethash.cpp:452-454 and 28-29: "!p || p->epoch_number != epoch_number ||
\* full != (p->full_dataset != nullptr)"
ContextMismatchIgnoresFull(ctxs, p, epoch_number, full) ==
  IF p = Null THEN TRUE
  ELSE ctxs[p].epoch_number # epoch_number

ContextMismatchAlways(ctxs, p, epoch_number, full) == TRUE

ContextMismatch(ctxs, p, epoch_number, full) ==
  IF p = Null THEN TRUE
  ELSE (ctxs[p].epoch_number # epoch_number) \/ (full # ctxs[p].full_dataset)

NoRequest == [epoch_number |-> 0, full |-> FALSE]

InitRegistry ==
  /\ contexts = << >>
  /\ shared_context = Null
  /\ thread_local_context = [t \in Threads |-> Null]
  /\ shared_context_mutex = NoThread
  /\ pc = [t \in Threads |-> "idle"]
  /\ req = [t \in Threads |-> NoRequest]
  /\ handle = [t \in Threads |-> NoHandle]
  /\ how = [t \in Threads |-> "none"]
  /\ nFail = 0

(***************************************************************************)
(* get_epoch_context(epoch_number, full), ethash.cpp:449-460, up to the    *)
(* point where it either returns or waits for the mutex.  The test of the  *)
(* thread-local slot and, on a mismatch, thread_local_context.reset()      *)
(* (update_local_context, line 23) touch only the caller's own slot and    *)
(* the atomic use count: they are one step.  A hit goes straight to the    *)
(* return statement.                                                       *)
(***************************************************************************)
GetEpochContextAlwaysUpdate(t, epoch_number, full) ==
  /\ pc[t] = "idle"
  /\ req' = [req EXCEPT ![t] = [epoch_number |-> epoch_number, full |-> full]]
  /\ contexts' = SharedPtrRelease(contexts, thread_local_context[t])
  /\ thread_local_context' = [thread_local_context EXCEPT ![t] = Null]
  /\ pc' = [pc EXCEPT ![t] = "lock"]
  /\ how' = [how EXCEPT ![t] = "miss"]
  /\ UNCHANGED <<shared_context, shared_context_mutex, handle, nFail>>
  /\ UNCHANGED nonRegVars

\* The step, as it changes the registry.
GetEpochContextCall(t, epoch_number, full) ==
  /\ pc[t] = "idle"
  /\ req' = [req EXCEPT ![t] = [epoch_number |-> epoch_number, full |-> full]]
  /\ IF ContextMismatch(contexts, thread_local_context[t], epoch_number, full)
     THEN /\ contexts' = SharedPtrRelease(contexts, thread_local_context[t])
          /\ thread_local_context' = [thread_local_context EXCEPT ![t] = Null]
          /\ pc' = [pc EXCEPT ![t] = "lock"]
          /\ how' = [how EXCEPT ![t] = "miss"]
     ELSE /\ pc' = [pc EXCEPT ![t] = "ret"]
          /\ how' = [how EXCEPT ![t] = "hit"]
          /\ UNCHANGED <<contexts, thread_local_context>>
  /\ UNCHANGED <<shared_context, shared_context_mutex, handle, nFail>>

GetEpochContext(t, epoch_number, full) ==
  /\ GetEpochContextCall(t, epoch_number, full)
  /\ UNCHANGED nonRegVars

(***************************************************************************)
(* update_local_context(epoch_number, full), ethash.cpp:19-39, from the    *)
(* lock on.  Everything between taking the lock (line 26) and the          *)
(* assignment of line 38 reads and writes only the shared slot, which the  *)
(* mutex protects, and the caller's own thread-local slot: it is one step. *)
(* The mutex stays held until the lock_guard is destroyed, a step of its   *)
(* own.                                                                    *)
(***************************************************************************)
\* lines 26-38, the shared slot matches: nothing is built, the shared
\* context is copied into the thread-local slot.
AdoptShared(t) ==
  /\ pc[t] = "lock"
  /\ shared_context_mutex = NoThread
  /\ ~ContextMismatch(contexts, shared_context, req[t].epoch_number, req[t].full)
  /\ shared_context_mutex' = t
  /\ contexts' = SharedPtrCopy(contexts, shared_context)
  /\ thread_local_context' = [thread_local_context EXCEPT ![t] = shared_context]
  /\ how' = [how EXCEPT ![t] = "adopt"]
  /\ pc' = [pc EXCEPT ![t] = "unlock"]
  /\ UNCHANGED <<shared_context, req, handle, nFail>>
  /\ UNCHANGED nonRegVars

\* lines 26-38, mismatch: shared_context.reset(), the context that
\* create_epoch_context returns is stored in the shared slot and copied.
BuildShared(t) ==
  /\ pc[t] = "lock"
  /\ shared_context_mutex = NoThread
  /\ ContextMismatch(contexts, shared_context, req[t].epoch_number, req[t].full)
  /\ Len(contexts) < MaxCtx
  /\ shared_context_mutex' = t
  /\ LET new == Len(contexts) + 1
         built == Append(SharedPtrRelease(contexts, shared_context),
                         NewContext(req[t].epoch_number, req[t].full))
     IN  /\ shared_context' = new
         /\ contexts' = SharedPtrCopy(built, new)
         /\ thread_local_context' = [thread_local_context EXCEPT ![t] = new]
  /\ how' = [how EXCEPT ![t] = "build"]
  /\ pc' = [pc EXCEPT ![t] = "unlock"]
  /\ UNCHANGED <<req, handle, nFail>>
  /\ UNCHANGED nonRegVars

\* The failure leaving the shared slot as it was, and the thread-local slot
\* a copy of it.
BuildSharedFailsKeepingShared(t) ==
  /\ pc[t] = "lock"
  /\ shared_context_mutex = NoThread
  /\ ContextMismatch(contexts, shared_context, req[t].epoch_number, req[t].full)
  /\ nFail < MaxFail
  /\ shared_context_mutex' = t
  /\ contexts' = SharedPtrCopy(contexts, shared_context)
  /\ thread_local_context' = [thread_local_context EXCEPT ![t] = shared_context]
  /\ nFail' = nFail + 1
  /\ how' = [how EXCEPT ![t] = "fail"]
  /\ pc' = [pc EXCEPT ![t] = "unlock"]
  /\ UNCHANGED <<shared_context, req, handle>>
  /\ UNCHANGED nonRegVars

\* lines 26-38, mismatch, and calloc fails inside create_epoch_context
\* (ethash.cpp:244-248): the shared slot is left holding a null pointer.
BuildSharedFails(t) ==
  /\ pc[t] = "lock"
  /\ shared_context_mutex = NoThread
  /\ ContextMismatch(contexts, shared_context, req[t].epoch_number, req[t].full)
  /\ nFail < MaxFail
  /\ shared_context_mutex' = t
  /\ contexts' = SharedPtrRelease(contexts, shared_context)
  /\ shared_context' = Null
  /\ thread_local_context' = [thread_local_context EXCEPT ![t] = Null]
  /\ nFail' = nFail + 1
  /\ how' = [how EXCEPT ![t] = "fail"]
  /\ pc' = [pc EXCEPT ![t] = "unlock"]
  /\ UNCHANGED <<req, handle>>
  /\ UNCHANGED nonRegVars

\* line 39: the lock_guard goes out of scope.
Unlock(t) ==
  /\ pc[t] = "unlock"
  /\ shared_context_mutex' = NoThread
  /\ pc' = [pc EXCEPT ![t] = "ret"]
  /\ UNCHANGED <<contexts, shared_context, thread_local_context, req, handle,
                 how, nFail>>
  /\ UNCHANGED nonRegVars

\* ethash.cpp:459: return detail::thread_local_context;  The caller stores the
\* returned copy in its handle variable, whose old value is released
\* (auto ctx{get_epoch_context(..)} in keccak.hpp:568 and ethash.cpp:445).
Return(t) ==
  /\ pc[t] = "ret"
  /\ LET c == thread_local_context[t]
         old == IF handle[t] = NoHandle THEN Null ELSE handle[t]
     IN  /\ handle' = [handle EXCEPT ![t] = c]
         /\ contexts' = SharedPtrRelease(SharedPtrCopy(contexts, c), old)
  /\ how' = [how EXCEPT ![t] = IF @ = "fail" THEN "fail" ELSE "ok"]
  /\ pc' = [pc EXCEPT ![t] = "idle"]
  /\ UNCHANGED <<shared_context, thread_local_context, shared_context_mutex,
                 req, nFail>>
  /\ UNCHANGED nonRegVars

\* The caller's handle goes out of scope (the shared_ptr's destructor).
DropHandleCall(t) ==
  /\ pc[t] = "idle"
  /\ handle[t] # NoHandle
  /\ handle' = [handle EXCEPT ![t] = NoHandle]
  /\ contexts' = SharedPtrRelease(contexts, handle[t])
  /\ req' = [req EXCEPT ![t] = NoRequest]
  /\ how' = [how EXCEPT ![t] = "none"]
  /\ UNCHANGED <<shared_context, thread_local_context, shared_context_mutex,
                 pc, nFail>>

DropHandle(t) ==
  /\ DropHandleCall(t)
  /\ UNCHANGED nonRegVars

NextRegistry ==
  \E t \in Threads :
    \/ \E e \in Epochs, f \in BOOLEAN : GetEpochContext(t, e, f)
    \/ AdoptShared(t)
    \/ BuildShared(t)
    \/ BuildSharedFails(t)
    \/ Unlock(t)
    \/ Return(t)
    \/ DropHandle(t)

(***************************************************************************)
(* Claims about the registry, checked under SpecRegistry.                  *)
(***************************************************************************)
Live(c) == c \in 1..Len(contexts) /\ ~contexts[c].freed

\* The shared_ptr objects that refer to context c: the shared slot, the
\* thread-local slots and the handles callers were returned.
Holders(c) ==
  (IF shared_context = c THEN 1 ELSE 0)
  + Cardinality({t \in Threads : thread_local_context[t] = c})
  + Cardinality({t \in Threads : handle[t] = c})

Returned(t) == pc[t] = "idle" /\ handle[t] # NoHandle

\* C1: a call in which no allocation failed returns a live context whose
\* epoch_number is the requested epoch and whose full_dataset is present
\* exactly when full was requested.
C1_ReturnedContextMatchesRequest ==
  \A t \in Threads :
    (Returned(t) /\ how[t] # "fail") =>
      /\ Live(handle[t])
      /\ contexts[handle[t]].epoch_number = req[t].epoch_number
      /\ contexts[handle[t]].full_dataset = req[t].full

\* Both threads hold a returned context, for different requests, one of them
\* with a full dataset, after the shared slot was rebuilt.
C1_Witness ==
  /\ Len(contexts) = 2
  /\ \A t \in Threads : Returned(t) /\ how[t] = "ok" /\ handle[t] # Null
  /\ \E t \in Threads : req[t].full /\ req[t].epoch_number = MaxEpoch
  /\ \E t \in Threads : ~req[t].full
  /\ handle[1] # handle[2]

\* The two threads are both inside calls that missed their thread-local slot
\* and have both passed the critical section: the calls overlap.
ConcurrentMisses(t1, t2) ==
  /\ t1 # t2
  /\ pc[t1] \in {"unlock", "ret"} /\ pc[t2] \in {"unlock", "ret"}
  /\ how[t1] \in {"adopt", "build", "fail"}
  /\ how[t2] \in {"adopt", "build", "fail"}
  /\ req[t1] = req[t2]

\* Since the earlier of the two threads left the critical section, no
\* context has been constructed for another (epoch, full): nobody came
\* between the two calls with a different request.
NoOtherRequestBuiltSince(t1, t2) ==
  LET c1 == thread_local_context[t1]
      c2 == thread_local_context[t2]
      first == IF c1 < c2 THEN c1 ELSE c2
  IN  \A c \in (first + 1)..Len(contexts) :
        /\ contexts[c].epoch_number = req[t1].epoch_number
        /\ contexts[c].full_dataset = req[t1].full

SameContextBuiltOnce ==
  /\ \A t1, t2 \in Threads :
       (ConcurrentMisses(t1, t2) /\ NoOtherRequestBuiltSince(t1, t2)) =>
         /\ thread_local_context[t1] = thread_local_context[t2]
         /\ Live(thread_local_context[t1])
         /\ ~(how[t1] = "build" /\ how[t2] = "build")
  /\ \A c \in 1..(Len(contexts) - 1) :
       \/ contexts[c].epoch_number # contexts[c + 1].epoch_number
       \/ contexts[c].full_dataset # contexts[c + 1].full_dataset

LocalHit(t) ==
  /\ pc[t] = "idle" /\ pc'[t] # "idle"
  /\ ~ContextMismatch(contexts, thread_local_context[t],
                      req'[t].epoch_number, req'[t].full)

\* C3: a call whose thread-local slot matches the request goes straight to
\* its return statement, leaving the mutex, the shared slot, the
\* thread-local slots and the set of contexts as they were, and it returns
\* the context of its thread-local slot.
C3_LocalHitFrame ==
  [][\A t \in Threads :
       /\ LocalHit(t) =>
            /\ pc'[t] = "ret"
            /\ UNCHANGED <<shared_context_mutex, shared_context,
                           thread_local_context, contexts>>
       /\ (pc[t] = "ret" /\ how[t] = "hit" /\ pc'[t] = "idle") =>
            /\ handle'[t] = thread_local_context[t]
            /\ Live(handle'[t])
            /\ Len(contexts') = Len(contexts)
            /\ UNCHANGED <<shared_context_mutex, shared_context,
                           thread_local_context>>]_vars

\* A hit is about to return while the shared slot holds another epoch.
C3_Witness ==
  \E t \in Threads :
    /\ pc[t] = "ret" /\ how[t] = "hit"
    /\ shared_context # Null
    /\ shared_context # thread_local_context[t]
    /\ contexts[shared_context].epoch_number # req[t].epoch_number

\* C4: a context has been destroyed exactly when no shared_ptr refers to it
\* any more: never while the shared slot, a thread-local slot or a returned
\* handle holds it, and as soon as the last of them let go.
C4_DestroyedIffUnheld ==
  \A c \in 1..Len(contexts) :
    /\ contexts[c].freed <=> (Holders(c) = 0)
    /\ contexts[c].refs = Holders(c)

\* One context was destroyed after its holders left; another one is kept
\* alive by a caller's handle alone.
C4_Witness ==
  /\ \E c \in 1..Len(contexts) : contexts[c].freed
  /\ \E c \in 1..Len(contexts) :
       /\ ~contexts[c].freed
       /\ shared_context # c
       /\ \A t \in Threads : thread_local_context[t] # c
       /\ \E t \in Threads : handle[t] = c

(***************************************************************************)
(* Hash values (hash_types.hpp).  hash256, hash512, hash1024 and hash2048  *)
(* are unions over 4, 8, 16 and 32 64-bit words, each two 32-bit words of  *)
(* four bytes.  The model keeps that layout and narrows the byte: a byte   *)
(* is ByteBits bits, a 32-bit word four bytes.  A hash is the sequence of  *)
(* its word32s; word32s[i] of the program is h[i + 1].                     *)
(***************************************************************************)
ByteBits == 1          \* width of a byte in the model (8 in the program)

Hash256Word64s == 4    \* sizeof(hash256) / sizeof(uint64_t)
fnv_prime == 16777619  \* 0x01000193
\* 0x811c9dc5, of which a word of at most 16 bits keeps the low 16 bits.
kFNV_OFFSET_BASIS == 40389

ByteModulus == 2 ^ ByteBits
WordBits == 4 * ByteBits
WordModulus == 2 ^ WordBits
Word == 0..(WordModulus - 1)
Words256 == 2 * Hash256Word64s
Words512 == 2 * Words256
Words1024 == 2 * Words512
Words2048 == 2 * Words1024
\* Body(v), with v computed before Body is entered.
With(v, Body(_)) == CHOOSE r \in {Body(x) : x \in {v}} : TRUE

\* The sequence F(1), ..., F(n), built element by element.
Tabulate(n, F(_)) ==
  LET T[lo \in 1..(n + 1), hi \in 0..n] ==
        IF lo > hi THEN << >>
        ELSE IF lo = hi THEN <<F(lo)>>
        ELSE T[lo, (lo + hi) \div 2] \o T[((lo + hi) \div 2) + 1, hi]
  IN  T[1, n]

ZeroHash(n) == Tabulate(n, LAMBDA i : 0)

\* Byte strings laid end to end (memcpy into one buffer, a union's members).
Concat(a, b) == a \o b
Slice(h, first, n) == SubSeq(h, first, first + n - 1)
SetWord(h, k, v) ==
  With(h, LAMBDA x : With(v, LAMBDA y : Tabulate(Len(x), LAMBDA i : IF i = k THEN y ELSE x[i])))

\* Arrays the program indexes from 0 are sequences of the model: array[i].
item_at(array, i) == array[i + 1]
set_item(array, i, v) ==
  With(array, LAMBDA x : With(v, LAMBDA y :
    Tabulate(Len(x), LAMBDA k : IF k = i + 1 THEN y ELSE x[k])))

\* a ^ b and a & b, bit by bit.
RECURSIVE XorBits(_, _)
XorBits(a, b) ==
  IF a = 0 THEN b
  ELSE IF b = 0 THEN a
  ELSE ((a + b) % 2) + 2 * XorBits(a \div 2, b \div 2)

RECURSIVE AndBits(_, _)
AndBits(a, b) ==
  IF a = 0 \/ b = 0 THEN 0
  ELSE ((a % 2) * (b % 2)) + 2 * AndBits(a \div 2, b \div 2)

\* The same, four bits at a time from tables of the 4-bit results.
XorTable == Tabulate(256, LAMBDA k : XorBits((k - 1) \div 16, (k - 1) % 16))
AndTable == Tabulate(256, LAMBDA k : AndBits((k - 1) \div 16, (k - 1) % 16))

RECURSIVE XOR(_, _)
XOR(a, b) ==
  IF a < 16 /\ b < 16 THEN XorTable[16 * a + b + 1]
  ELSE 16 * XOR(a \div 16, b \div 16) + XorTable[16 * (a % 16) + (b % 16) + 1]

RECURSIVE AND(_, _)
AND(a, b) ==
  IF a < 16 /\ b < 16 THEN AndTable[16 * a + b + 1]
  ELSE 16 * AND(a \div 16, b \div 16) + AndTable[16 * (a % 16) + (b % 16) + 1]

OR(a, b) == a + b - AND(a, b)

\* uint32_t arithmetic wraps at the word's width.
Wrap(x) == x % WordModulus
shl(x, s) == Wrap(x * (2 ^ s))
shr(x, s) == x \div (2 ^ s)

\* bitwise.hpp:26-42.  The shift count is taken modulo the word's width.
rotl32(n, s) == LET k == s % WordBits IN OR(shl(n, k), shr(n, (WordBits - k) % WordBits))
rotr32(n, s) == LET k == s % WordBits IN OR(shr(n, k), shl(n, (WordBits - k) % WordBits))

RECURSIVE BitLength(_)
BitLength(v) == IF v = 0 THEN 0 ELSE 1 + BitLength(v \div 2)

\* bitwise.hpp:44-54.
clz32(v) == WordBits - BitLength(v)

RECURSIVE popcnt32(_)
popcnt32(v) == IF v = 0 THEN 0 ELSE (v % 2) + popcnt32(v \div 2)

\* bitwise.hpp:56-60.
mul_hi32(x, y) == (x * y) \div WordModulus

\* ethash.cpp:47-50 and bitwise.hpp:67-82.
fnv1(u, v) == XOR(Wrap(Wrap(u) * (fnv_prime % WordModulus)), v)
fnv1a(u, v) == Wrap(XOR(Wrap(u), Wrap(v)) * (fnv_prime % WordModulus))

fnv1_512(a, b) ==
  With(a, LAMBDA x : With(b, LAMBDA y : Tabulate(Len(x), LAMBDA i : fnv1(x[i], y[i]))))

xor_512(x, y) ==
  With(x, LAMBDA a : With(y, LAMBDA b : Tabulate(Len(a), LAMBDA i : XOR(a[i], b[i]))))

\* word64s[k] of a hash: its word32s 2k and 2k + 1.
word64s(h, k) == <<h[2 * k + 1], h[2 * k + 2]>>

\* endianess.hpp: bswap32 reverses the four bytes of a word.
RECURSIVE ReverseBytes(_, _)
ReverseBytes(x, n) ==
  IF n = 0 THEN 0
  ELSE (x % ByteModulus) * (ByteModulus ^ (n - 1)) + ReverseBytes(x \div ByteModulus, n - 1)

bswap32(x) == ReverseBytes(x, 4)

\* The word left in host order, its high half first.
be_uint64_host_order(w64) == <<w64[2], w64[1]>>

\* be::uint64 of a 64-bit word on a little-endian host: bswap64, whose value
\* is read here as its high and low 32-bit halves.
be_uint64(w64) == <<bswap32(w64[1]), bswap32(w64[2])>>

\* hash_types.hpp: is_less_or_equal compares the four word64s in turn, each
\* through be::uint64; is_equal is memcmp over the 32 bytes.
RECURSIVE LessOrEqualFrom(_, _, _)
LessOrEqualFrom(a, b, i) ==
  IF i = Hash256Word64s THEN TRUE
  ELSE LET x == be_uint64(word64s(a, i))
           y == be_uint64(word64s(b, i))
       IN  IF x[1] > y[1] \/ (x[1] = y[1] /\ x[2] > y[2]) THEN FALSE
           ELSE IF x[1] < y[1] \/ (x[1] = y[1] /\ x[2] < y[2]) THEN TRUE
           ELSE LessOrEqualFrom(a, b, i + 1)

is_less_or_equal(a, b) == LessOrEqualFrom(a, b, 0)

is_equal(a, b) == a = b

(***************************************************************************)
(* Keccak (keccak.cpp).  The permutations are outside this model: a hash   *)
(* of n words is n words drawn from a digest of the input, so that every   *)
(* output word depends on every input word and on the input's length, and  *)
(* equal inputs give equal outputs.                                        *)
(***************************************************************************)
DigestWeight(i) == ((7919 * i * i + 104729 * i + 1) % 65521)

Digest(data) ==
  With(data, LAMBDA x :
    LET S[lo \in 1..Len(x), hi \in 1..Len(x)] ==
          IF lo = hi THEN ((x[lo] + 1) * DigestWeight(lo)) % 65521
          ELSE (S[lo, (lo + hi) \div 2] + S[((lo + hi) \div 2) + 1, hi]) % 65521
    IN  (S[1, Len(x)] + Len(x)) % 65521)

DigestWord(d, i) == Wrap((((d + i) * (2 * i + 1) + 7919 * i) % 65521) \div 16)

keccak(data, n) == With(Digest(data), LAMBDA d : Tabulate(n, LAMBDA i : DigestWord(d, i)))

keccak256(data) == keccak(data, Words256)
keccak512(data) == keccak(data, Words512)

(***************************************************************************)
(* Sizes (ethash.cpp:277-356).  The program derives the item counts from   *)
(* byte sizes declared in ethash.hpp; the model states them in items.      *)
(***************************************************************************)
LightItemsInit == 5      \* light_cache_init_size / sizeof(hash512)
LightItemsGrowth == 2    \* light_cache_growth / sizeof(hash512)
FullItemsInit == 5       \* full_dataset_init_size / sizeof(hash1024)
FullItemsGrowth == 2     \* full_dataset_growth / sizeof(hash1024)
L1Items2048 == 1         \* l1_cache_size / sizeof(hash2048)
light_cache_rounds == 1
full_dataset_item_parents == 2
num_dataset_accesses == 2

l1_cache_num_items == 2 * L1Items2048

RECURSIVE HasOddFactorFrom(_, _)
HasOddFactorFrom(number, d) ==
  IF d * d > number THEN FALSE
  ELSE IF number % d = 0 THEN TRUE
  ELSE HasOddFactorFrom(number, d + 2)

\* Every odd number taken for a prime.
is_unsigned_odd(number) == number % 2 = 1

is_unsigned_odd_prime(number) ==
  IF number % 2 = 0 THEN FALSE ELSE ~HasOddFactorFrom(number, 3)

RECURSIVE DescendToPrime(_)
DescendToPrime(n) == IF is_unsigned_odd_prime(n) THEN n ELSE DescendToPrime(n - 2)

find_largest_unsigned_prime(upper_bound) ==
  IF upper_bound < 2 THEN 0
  ELSE DescendToPrime(IF upper_bound % 2 = 1 THEN upper_bound ELSE upper_bound - 1)

calculate_light_cache_num_items(epoch_number) ==
  find_largest_unsigned_prime(LightItemsInit + epoch_number * LightItemsGrowth)

calculate_full_dataset_num_items(epoch_number) ==
  find_largest_unsigned_prime(FullItemsInit + epoch_number * FullItemsGrowth)

RECURSIVE calculate_seed_from_epoch(_)
calculate_seed_from_epoch(epoch_number) ==
  IF epoch_number = 0 THEN ZeroHash(Words256)
  ELSE keccak256(calculate_seed_from_epoch(epoch_number - 1))

(***************************************************************************)
(* build_light_cache (ethash.cpp:131-156).                                 *)
(***************************************************************************)
RECURSIVE SequentialItems(_, _, _)
SequentialItems(cache, item, num_items) ==
  IF Len(cache) = num_items THEN cache
  ELSE SequentialItems(Append(cache, item), keccak512(item), num_items)

RECURSIVE LightCacheRound(_, _, _)
LightCacheRound(cache, num_items, i) ==
  IF i = num_items THEN cache
  ELSE LET t == item_at(cache, i)[1]
           v == t % num_items
           w == (num_items + (i - 1)) % num_items
           x == xor_512(item_at(cache, v), item_at(cache, w))
       IN  With(set_item(cache, i, keccak512(x)), LAMBDA next :
             LightCacheRound(next, num_items, i + 1))

RECURSIVE LightCacheRounds(_, _, _)
LightCacheRounds(cache, num_items, round) ==
  IF round = light_cache_rounds THEN cache
  ELSE With(LightCacheRound(cache, num_items, 0), LAMBDA next :
         LightCacheRounds(next, num_items, round + 1))

build_light_cache(num_items, seed) ==
  LightCacheRounds(SequentialItems(<< >>, keccak512(seed), num_items), num_items, 0)

(***************************************************************************)
(* item_state and the dataset items (ethash.cpp:72-129).                   *)
(***************************************************************************)
item_state(context, index) ==
  LET mix == item_at(context.light_cache, index % context.light_cache_num_items)
  IN  keccak512(SetWord(mix, 1, XOR(mix[1], Wrap(index))))

item_update(context, seed, mix, round) ==
  LET t == fnv1(XOR(seed, round), mix[(round % Len(mix)) + 1])
      parent_index == t % context.light_cache_num_items
  IN  fnv1_512(mix, item_at(context.light_cache, parent_index))

RECURSIVE item_updates(_, _, _, _)
item_updates(context, seed, mix, round) ==
  IF round = full_dataset_item_parents THEN mix
  ELSE item_updates(context, seed, item_update(context, seed, mix, round), round + 1)

item_final(mix) == keccak512(mix)

\* One item_state taken through its constructor, every update and final().
dataset_item_512(context, index) ==
  item_final(item_updates(context, index, item_state(context, index), 0))

\* The pass in which every item_state of the pack follows the first one's
\* parent.
pack_update_first_parent(context, seeds, mixes, round) ==
  LET t == fnv1(XOR(seeds[1], round), mixes[1][(round % Len(mixes[1])) + 1])
      parent_index == t % context.light_cache_num_items
  IN  Tabulate(Len(seeds),
               LAMBDA k : fnv1_512(mixes[k], item_at(context.light_cache, parent_index)))

\* One pass of a loop body "item0.update(i); item1.update(i); ..." (ethash.cpp:
\* 106-107 and 122-125): every item_state of the pack takes its own update.
pack_update(context, seeds, mixes, round) ==
  Tabulate(Len(seeds), LAMBDA k : item_update(context, seeds[k], mixes[k], round))

\* The loops at ethash.cpp:104-108 and 120-126, from iteration `round` on.
RECURSIVE pack_updates(_, _, _, _)
pack_updates(context, seeds, mixes, round) ==
  IF round = full_dataset_item_parents THEN mixes
  ELSE pack_updates(context, seeds, pack_update(context, seeds, mixes, round), round + 1)

\* The item_states of indices first, first + 1, ..., constructed, stepped
\* together and finalised, their digests one after the other.
RECURSIVE ConcatAll(_)
ConcatAll(items) ==
  IF items = << >> THEN << >> ELSE Concat(Head(items), ConcatAll(Tail(items)))

calculate_dataset_pack(context, first, n) ==
  LET seeds == Tabulate(n, LAMBDA k : first + (k - 1))
      start == Tabulate(n, LAMBDA k : item_state(context, seeds[k]))
      mixes == pack_updates(context, seeds, start, 0)
  IN  ConcatAll(Tabulate(n, LAMBDA k : item_final(mixes[k])))

calculate_dataset_item_1024(context, index) ==
  calculate_dataset_pack(context, index * 2, 2)

calculate_dataset_item_2048(context, index) ==
  calculate_dataset_pack(context, index * 4, 4)

(***************************************************************************)
(* create_epoch_context (ethash.cpp:229-267), the allocation having        *)
(* succeeded.  l1_cache is the memory that follows the light cache: calloc *)
(* zeroes it, and the loop at 264-265 fills its first L1Items2048 hash2048 *)
(* items.  With full = true that memory is full_dataset_num_items hash1024 *)
(* items long and full_dataset points at it; otherwise it is the L1 cache  *)
(* alone and full_dataset is null.  The record's full_dataset field says   *)
(* whether the pointer is set; the items are read through l1_cache, here   *)
(* an array of hash1024.                                                   *)
(***************************************************************************)
RECURSIVE FillL1(_, _, _)
FillL1(context, memory, i) ==
  IF i = L1Items2048 THEN memory
  ELSE LET item == calculate_dataset_item_2048(context, i)
       IN  FillL1(context,
                  set_item(set_item(memory, 2 * i, Slice(item, 1, Words1024)),
                           2 * i + 1, Slice(item, Words1024 + 1, Words1024)),
                  i + 1)

\* The context with the loop at 264-265 left out: the memory as calloc left it.
create_epoch_context_unfilled(epoch_number, full) ==
  LET light_cache_num_items == calculate_light_cache_num_items(epoch_number)
      full_dataset_num_items == calculate_full_dataset_num_items(epoch_number)
      epoch_seed == calculate_seed_from_epoch(epoch_number)
      num_allocated == IF full THEN full_dataset_num_items ELSE l1_cache_num_items
  IN  [epoch_number |-> epoch_number,
       light_cache_num_items |-> light_cache_num_items,
       full_dataset_num_items |-> full_dataset_num_items,
       light_cache |-> build_light_cache(light_cache_num_items, epoch_seed),
       l1_cache |-> Tabulate(num_allocated, LAMBDA i : ZeroHash(Words1024)),
       full_dataset |-> full]

create_epoch_context(epoch_number, full) ==
  LET light_cache_num_items == calculate_light_cache_num_items(epoch_number)
      full_dataset_num_items == calculate_full_dataset_num_items(epoch_number)
      epoch_seed == calculate_seed_from_epoch(epoch_number)
      num_allocated == IF full THEN full_dataset_num_items ELSE l1_cache_num_items
      context == [epoch_number |-> epoch_number,
                  light_cache_num_items |-> light_cache_num_items,
                  full_dataset_num_items |-> full_dataset_num_items,
                  light_cache |-> build_light_cache(light_cache_num_items, epoch_seed),
                  l1_cache |-> Tabulate(num_allocated, LAMBDA i : ZeroHash(Words1024)),
                  full_dataset |-> full]
  IN  [context EXCEPT !.l1_cache = FillL1(context, @, 0)]

(***************************************************************************)
(* hash_mix's lazy_lookup (ethash.cpp:169-191), run without interruption.  *)
(* It yields the item and the context as the lookup leaves it.             *)
(***************************************************************************)
\* The lookup without lines 181-185: the slot is returned as it is.
lazy_lookup_without_fill(ctx, index) ==
  IF index < l1_cache_num_items \/ ctx.full_dataset
  THEN [item |-> item_at(ctx.l1_cache, index), ctx |-> ctx]
  ELSE [item |-> calculate_dataset_item_1024(ctx, index), ctx |-> ctx]

lazy_lookup(ctx, index) ==
  IF index < l1_cache_num_items
  THEN [item |-> item_at(ctx.l1_cache, index), ctx |-> ctx]
  ELSE IF ctx.full_dataset
  THEN IF word64s(item_at(ctx.l1_cache, index), 0) = <<0, 0>>
       THEN LET item == calculate_dataset_item_1024(ctx, index)
            IN  [item |-> item, ctx |-> [ctx EXCEPT !.l1_cache = set_item(@, index, item)]]
       ELSE [item |-> item_at(ctx.l1_cache, index), ctx |-> ctx]
  ELSE [item |-> calculate_dataset_item_1024(ctx, index), ctx |-> ctx]

(***************************************************************************)
(* ethash hash_seed, hash_mix, hash_final and hash (ethash.cpp:158-227,    *)
(* 409-414).  A nonce is one 64-bit word: two word32s, low word first.     *)
(***************************************************************************)
NonceWords(nonce) == <<Wrap(nonce), Wrap(nonce \div WordModulus)>>

ethash_hash_seed(header, nonce) == keccak512(Concat(header, NonceWords(nonce)))

RECURSIVE MixAccesses(_, _, _, _)
MixAccesses(context, seed_init, mix, i) ==
  IF i = num_dataset_accesses THEN [mix |-> mix, ctx |-> context]
  ELSE LET p == fnv1(XOR(i, seed_init), mix[(i % Words1024) + 1])
                  % context.full_dataset_num_items
       IN  With(lazy_lookup(context, p), LAMBDA looked :
             With(Tabulate(Words1024, LAMBDA j : fnv1(mix[j], looked.item[j])), LAMBDA mixed :
               MixAccesses(looked.ctx, seed_init, mixed, i + 1)))

MixCompress(mix) ==
  With(mix, LAMBDA m :
    Tabulate(Words1024 \div 4, LAMBDA k :
       fnv1(fnv1(fnv1(m[4 * k - 3], m[4 * k - 2]), m[4 * k - 1]), m[4 * k])))

ethash_hash_mix(context, seed) ==
  LET done == MixAccesses(context, seed[1], Concat(seed, seed), 0)
  IN  [mix_hash |-> MixCompress(done.mix), ctx |-> done.ctx]

ethash_hash_final(seed, mix) == keccak256(Concat(seed, mix))

ethash_hash(context, header, nonce) ==
  With(ethash_hash_seed(header, nonce), LAMBDA seed :
    With(ethash_hash_mix(context, seed), LAMBDA mixed :
      [final_hash |-> ethash_hash_final(seed, mixed.mix_hash),
       mix_hash |-> mixed.mix_hash,
       ctx |-> mixed.ctx]))

(***************************************************************************)
(* The dataset part: one context built with full = true.                   *)
(***************************************************************************)
MaxHeader == 3    \* header hashes hashed are keccak256 of <<0>> .. <<MaxHeader>>
MaxNonce == 2     \* nonces hashed are 0..MaxNonce

Headers == {keccak256(<<k>>) : k \in 0..MaxHeader}
Nonces == 0..MaxNonce

NoLookup == [pc |-> "idle", index |-> 0, item |-> << >>, up |-> TRUE, at |-> 0, out |-> << >>]
NoHash == [called |-> FALSE, header |-> << >>, nonce |-> 0,
           final_hash |-> << >>, mix_hash |-> << >>]

InitDataset ==
  /\ epoch_context = create_epoch_context(0, TRUE)
  /\ lk = [t \in Threads |-> NoLookup]
  /\ hm = NoHash

(***************************************************************************)
(* SpecHash: hash computations on full contexts, one at a time.            *)
(***************************************************************************)
\* A context for another epoch replaces the one in use (ethash.cpp:229-267).
CreateEpochContext(epoch_number) ==
  /\ epoch_context.epoch_number # epoch_number
  /\ epoch_context' = create_epoch_context(epoch_number, TRUE)
  /\ hm' = NoHash
  /\ UNCHANGED lk
  /\ UNCHANGED nonDsVars

\* ethash::hash (ethash.cpp:409-414): hash_seed, hash_mix with its
\* num_dataset_accesses lazy lookups, and hash_final; the dataset is left as
\* the lookups filled it.
Hash(header, nonce) ==
  /\ \E r \in {ethash_hash(epoch_context, header, nonce)} :
       /\ epoch_context' = r.ctx
       /\ hm' = [called |-> TRUE, header |-> header, nonce |-> nonce,
                 final_hash |-> r.final_hash, mix_hash |-> r.mix_hash]
  /\ UNCHANGED lk
  /\ UNCHANGED nonDsVars

NextHash ==
  \/ \E epoch_number \in Epochs : CreateEpochContext(epoch_number)
  \/ \E header \in Headers, nonce \in Nonces : Hash(header, nonce)

(***************************************************************************)
(* SpecLookup: lazy_lookup (ethash.cpp:169-191) called by two threads on   *)
(* the same full context.  Nothing orders one thread's accesses to a       *)
(* dataset slot with the other's: the test of word64s[0] at line 181, the  *)
(* store of the 128-byte item at line 184 and the copy made by             *)
(* `return item` at line 186 are plain memory accesses.  The store and the *)
(* copy each move the item AccessWord64s 64-bit words at a time; the store *)
(* runs through the item in either direction, the copy from its first      *)
(* word to its last.                                                       *)
(***************************************************************************)
AccessWord64s == 8     \* 64-bit words moved by one memory access

NumAccesses1024 == ((Words1024 \div 2) + AccessWord64s - 1) \div AccessWord64s

\* Access number k of a copy of `from` into h.
CopyAccess(h, k, from) ==
  With(h, LAMBDA x : With(from, LAMBDA y :
    Tabulate(Len(x), LAMBDA i :
       IF ((i - 1) \div 2) \div AccessWord64s = k THEN y[i] ELSE x[i])))

\* Lines 172-176 and 180: items below l1_cache_num_items are read from the
\* L1 cache, which nothing writes after construction.
LookupBegin(t, index) ==
  /\ lk[t].pc = "idle"
  /\ IF index < l1_cache_num_items
     THEN lk' = [lk EXCEPT ![t] = [NoLookup EXCEPT !.pc = "done", !.index = index,
                                     !.out = item_at(epoch_context.l1_cache, index)]]
     ELSE lk' = [lk EXCEPT ![t] = [NoLookup EXCEPT !.pc = "test", !.index = index]]
  /\ UNCHANGED <<epoch_context, hm>>
  /\ UNCHANGED nonDsVars

\* Line 181, and the call of calculate_dataset_item_1024 at line 184.
LookupTest(t) ==
  /\ lk[t].pc = "test"
  /\ IF word64s(item_at(epoch_context.l1_cache, lk[t].index), 0) = <<0, 0>>
     THEN \E up \in BOOLEAN, item \in {calculate_dataset_item_1024(epoch_context, lk[t].index)} :
            lk' = [lk EXCEPT ![t].pc = "store",
                             ![t].item = item,
                             ![t].up = up,
                             ![t].at = IF up THEN 0 ELSE NumAccesses1024 - 1]
     ELSE lk' = [lk EXCEPT ![t].pc = "copy",
                           ![t].out = ZeroHash(Words1024),
                           ![t].at = 0]
  /\ UNCHANGED <<epoch_context, hm>>
  /\ UNCHANGED nonDsVars

\* Line 184: one access of the assignment to the slot.
LookupStore(t) ==
  /\ lk[t].pc = "store"
  /\ epoch_context' = [epoch_context EXCEPT !.l1_cache =
        set_item(@, lk[t].index,
                 CopyAccess(item_at(@, lk[t].index), lk[t].at, lk[t].item))]
  /\ LET next == IF lk[t].up THEN lk[t].at + 1 ELSE lk[t].at - 1
     IN  IF next \in 0..(NumAccesses1024 - 1)
         THEN lk' = [lk EXCEPT ![t].at = next]
         ELSE lk' = [lk EXCEPT ![t].pc = "copy",
                               ![t].item = << >>,
                               ![t].out = ZeroHash(Words1024),
                               ![t].up = TRUE,
                               ![t].at = 0]
  /\ UNCHANGED hm
  /\ UNCHANGED nonDsVars

\* Line 186: one access of the copy of the slot into the result.
LookupCopy(t) ==
  /\ lk[t].pc = "copy"
  /\ lk' = [lk EXCEPT ![t].out = CopyAccess(@, lk[t].at,
                                             item_at(epoch_context.l1_cache, lk[t].index)),
                      ![t].at = @ + 1,
                      ![t].pc = IF lk[t].at = NumAccesses1024 - 1 THEN "done" ELSE "copy"]
  /\ UNCHANGED <<epoch_context, hm>>
  /\ UNCHANGED nonDsVars

\* The caller has consumed the item.
LookupEnd(t) ==
  /\ lk[t].pc = "done"
  /\ lk' = [lk EXCEPT ![t] = NoLookup]
  /\ UNCHANGED <<epoch_context, hm>>
  /\ UNCHANGED nonDsVars

NextLookup ==
  \E t \in Threads :
    \/ \E index \in 0..(epoch_context.full_dataset_num_items - 1) : LookupBegin(t, index)
    \/ LookupTest(t)
    \/ LookupStore(t)
    \/ LookupCopy(t)
    \/ LookupEnd(t)


(***************************************************************************)
(* C5, C6: the lazily filled dataset.                                      *)
(***************************************************************************)
\* C5: with full = true, in every interleaving of threads looking up the same
\* dataset index, every lookup returns exactly the value of
\* calculate_dataset_item_1024 for that index, never a zero or partly written
\* item.
C5_LookupReturnsComputedItem ==
  \A t \in Threads :
     lk[t].pc = "done" =>
        lk[t].out = calculate_dataset_item_1024(epoch_context, lk[t].index)

\* Slot `index` of the dataset passes the test at ethash.cpp:181 as filled.
SlotFilled(context, index) == word64s(item_at(context.l1_cache, index), 0) # <<0, 0>>

num_tries == 5       \* 30000 in the program
MaxSeedEpoch == 7    \* the seeds looked up are those of epochs 0..MaxSeedEpoch

nullopt == {}
has_value(o) == o # {}
value(o) == CHOOSE v \in o : TRUE

\* Lines 394-406: the linear search, entered with cached_epoch_seed = seed_i.
RECURSIVE LinearSearch(_, _, _)
LinearSearch(seed_i, seed, i) ==
  IF i = num_tries
  THEN [result |-> nullopt, cached_epoch_number |-> nullopt, cached_epoch_seed |-> seed_i]
  ELSE IF is_equal(seed_i, seed)
  THEN [result |-> {i}, cached_epoch_number |-> {i}, cached_epoch_seed |-> seed_i]
  ELSE LinearSearch(keccak256(seed_i), seed, i + 1)

\* Lines 375-389 without line 385: the number advances and the seed stays.
CacheLookupKeepingSeed(seed, number, cached_seed) ==
  IF has_value(number) /\ is_equal(seed, cached_seed)
  THEN [result |-> number, cached_epoch_number |-> number, cached_epoch_seed |-> cached_seed]
  ELSE IF has_value(number) /\ is_equal(keccak256(cached_seed), seed)
  THEN [result |-> {value(number) + 1},
        cached_epoch_number |-> {value(number) + 1},
        cached_epoch_seed |-> cached_seed]
  ELSE [result |-> nullopt, cached_epoch_number |-> number, cached_epoch_seed |-> cached_seed]

\* Lines 375-389: the cache holds the seed, or the seed before it.
CacheLookup(seed, number, cached_seed) ==
  IF has_value(number) /\ is_equal(seed, cached_seed)
  THEN [result |-> number, cached_epoch_number |-> number, cached_epoch_seed |-> cached_seed]
  ELSE IF has_value(number) /\ is_equal(keccak256(cached_seed), seed)
  THEN [result |-> {value(number) + 1},
        cached_epoch_number |-> {value(number) + 1},
        cached_epoch_seed |-> keccak256(cached_seed)]
  ELSE [result |-> nullopt, cached_epoch_number |-> number, cached_epoch_seed |-> cached_seed]

\* The function without line 393: the search starts at the seed in the cache.
calculate_epoch_from_seed_without_restart(seed, number, cached_seed) ==
  LET cached == CacheLookup(seed, number, cached_seed)
  IN  IF has_value(cached.result) THEN cached
      ELSE LinearSearch(cached_seed, seed, 0)

\* The call on a thread whose cache holds (number, cached_seed): the value it
\* returns and the cache it leaves.
calculate_epoch_from_seed(seed, number, cached_seed) ==
  LET cached == CacheLookup(seed, number, cached_seed)
  IN  IF has_value(cached.result) THEN cached
      ELSE LinearSearch(ZeroHash(Words256), seed, 0)

\* The seeds of the epochs 0..MaxSeedEpoch, and a hash that is no epoch's seed.
Seeds == {calculate_seed_from_epoch(e) : e \in 0..MaxSeedEpoch} \cup {keccak256(<<0>>)}

NoSeedCall == [called |-> FALSE, thread |-> NoThread, seed |-> << >>,
               number_before |-> nullopt, seed_before |-> << >>, result |-> nullopt]

InitSeed ==
  /\ cached_epoch_number = [t \in Threads |-> nullopt]
  /\ cached_epoch_seed = [t \in Threads |-> ZeroHash(Words256)]
  /\ es = NoSeedCall

CalculateEpochFromSeed(t, seed) ==
  /\ \E r \in {calculate_epoch_from_seed(seed, cached_epoch_number[t], cached_epoch_seed[t])} :
       /\ cached_epoch_number' = [cached_epoch_number EXCEPT ![t] = r.cached_epoch_number]
       /\ cached_epoch_seed' = [cached_epoch_seed EXCEPT ![t] = r.cached_epoch_seed]
       /\ es' = [called |-> TRUE, thread |-> t, seed |-> seed,
                 number_before |-> cached_epoch_number[t],
                 seed_before |-> cached_epoch_seed[t],
                 result |-> r.result]
  /\ UNCHANGED nonSeedVars

NextSeed == \E t \in Threads, seed \in Seeds : CalculateEpochFromSeed(t, seed)

(***************************************************************************)
(* C10                                                                     *)
(***************************************************************************)
\* C10: in every state of the calling thread's one-entry cache,
\* calculate_epoch_from_seed applied to calculate_seed_from_epoch(e) returns e,
\* for every epoch e below the search limit num_tries.
C10_EpochFromSeedInvertsSeedFromEpoch ==
  es.called =>
     \A e \in 0..(num_tries - 1) :
        es.seed = calculate_seed_from_epoch(e) => es.result = {e}

\* The call found the cache at an epoch at or beyond the search limit and
\* asked for the seed of an earlier epoch other than 0.
C10_Witness ==
  /\ es.called
  /\ \E n \in es.number_before : n >= num_tries
  /\ \E e \in 1..(num_tries - 1) :
        es.seed = calculate_seed_from_epoch(e) /\ es.result = {e}

(***************************************************************************)
(* C11                                                                     *)
(***************************************************************************)
\* The seeds of the epochs the linear search reaches.
SeedsWithinLimit == {calculate_seed_from_epoch(e) : e \in 0..(num_tries - 1)}

\* C11: in every state of the calling thread's cache,
\* calculate_epoch_from_seed reports an absent value for every seed that is
\* not the seed of an epoch below the search limit num_tries.
C11_AbsentBeyondSearchLimit ==
  es.called => (es.seed \notin SeedsWithinLimit => es.result = nullopt)


(***************************************************************************)
(* C27                                                                     *)
(***************************************************************************)
\* C27: between the calls of calculate_epoch_from_seed on a thread, a cached
\* epoch number e comes with the cached seed calculate_seed_from_epoch(e);
\* after a call that found no epoch the thread's cached number is empty.
C27_CachedSeedIsSeedOfCachedEpoch ==
  /\ \A t \in Threads :
       has_value(cached_epoch_number[t]) =>
         cached_epoch_seed[t] = calculate_seed_from_epoch(value(cached_epoch_number[t]))
  /\ (es.called /\ es.result = nullopt) => cached_epoch_number[es.thread] = nullopt

\* The cache was advanced by one epoch, to an epoch the search itself never
\* reaches.
C27_Witness ==
  /\ es.called
  /\ has_value(es.number_before)
  /\ cached_epoch_number[es.thread] = {value(es.number_before) + 1}
  /\ value(es.number_before) + 1 >= num_tries
  /\ cached_epoch_seed[es.thread] # es.seed_before

(***************************************************************************)
(* C16                                                                     *)
(***************************************************************************)
\* The request of thread t is past update_local_context by route h.
Took(t, h) == how[t] = h /\ pc[t] \in {"unlock", "ret"}

\* C16: a call in which the allocation failed leaves the shared slot (while
\* the caller holds the mutex) and the caller's thread-local slot null and
\* returns a null handle; and a request is never answered from the shared
\* slot unless that slot holds a live context of the requested epoch and
\* kind, so a request that finds the slot a failure left is a request that
\* constructs.
C16_FailureReturnsNullAndIsRetried ==
  \A t \in Threads :
    /\ how[t] = "fail" =>
         /\ thread_local_context[t] = Null
         /\ pc[t] = "unlock" => shared_context = Null
         /\ pc[t] = "idle" => handle[t] = Null
    /\ (how[t] = "adopt" /\ pc[t] = "unlock") =>
         /\ Live(shared_context)
         /\ thread_local_context[t] = shared_context
         /\ ~ContextMismatch(contexts, shared_context,
                             req[t].epoch_number, req[t].full)
    /\ (pc[t] = "lock" /\ shared_context = Null) => ~ENABLED AdoptShared(t)

\* One thread was returned a null handle by a call whose allocation failed,
\* and the other, asking for the same epoch and kind afterwards, has just
\* constructed the context.
C16_Witness ==
  \E t, u \in Threads :
    /\ t # u
    /\ pc[t] = "idle" /\ how[t] = "fail" /\ handle[t] = Null
    /\ Took(u, "build") /\ pc[u] = "unlock"
    /\ req[u] = req[t]
    /\ Live(shared_context)


(***************************************************************************)
(* ProgPoW.  progpow.hpp is src/unnamed/part_000 and progpow.cpp is the    *)
(* code of src/libcrypto/keccak.hpp from line 40 on; the line numbers      *)
(* below are those files'.  kPeriodLength, kLanes and kDag_loads are the   *)
(* program's; the counts of registers and operations are narrowed.  A 16-bit *)
(* shift of a 32-bit word is a shift by half the model's word; the other   *)
(* shift counts of kiss99 keep their proportion to the word's width.       *)
(***************************************************************************)
kPeriodLength == 1    \* progpow.hpp:18
kLanes == 16          \* progpow.hpp:19
kDag_loads == 4       \* progpow.hpp:21
kRegs == 4            \* 32 in the program
kDag_count == 2       \* 64 in the program
kCache_count == 1     \* 11 in the program
kMath_count == 2      \* 18 in the program

kWords_per_lane == Words2048 \div kLanes
kL1_cache_words == l1_cache_num_items * Words1024

HalfWordBits == WordBits \div 2
ShiftCount(s) == (s * WordBits + 31) \div 32

\* kiss99.hpp: the generator's state, and operator(): the number drawn and
\* the state it leaves.
kiss99(z, w, jsr, jcong) == [z |-> z, w |-> w, jsr |-> jsr, jcong |-> jcong]

kiss99_next(rng) ==
  LET z_ == Wrap(36969 * (rng.z % (2 ^ HalfWordBits)) + shr(rng.z, HalfWordBits))
      w_ == Wrap(18000 * (rng.w % (2 ^ HalfWordBits)) + shr(rng.w, HalfWordBits))
      jcong_ == Wrap(69069 * rng.jcong + 1234567)
      jsr1 == XOR(rng.jsr, shl(rng.jsr, ShiftCount(17)))
      jsr2 == XOR(jsr1, shr(jsr1, ShiftCount(13)))
      jsr_ == XOR(jsr2, shl(jsr2, ShiftCount(5)))
  IN  [value |-> Wrap(XOR(Wrap(shl(z_, HalfWordBits) + w_), jcong_) + jsr_),
       rng |-> kiss99(z_, w_, jsr_, jcong_)]

\* seq[i] = seq[j] alone, the value of seq[i] lost.
SwapOverwrite(seq, i, j) ==
  With(seq, LAMBDA s :
    Tabulate(Len(s), LAMBDA k : IF k = i + 1 THEN s[j + 1] ELSE s[k]))

\* std::swap(seq[i], seq[j])
Swap(seq, i, j) ==
  With(seq, LAMBDA s :
    Tabulate(Len(s), LAMBDA k : IF k = i + 1 THEN s[j + 1]
                                ELSE IF k = j + 1 THEN s[i + 1]
                                ELSE s[k]))

\* progpow.cpp:65-69, the loop from i down to 2.
RECURSIVE FisherYates(_, _, _, _)
FisherYates(rng, dst_seq, src_seq, i) ==
  IF i <= 1
  THEN [rng |-> rng, dst_counter |-> 0, src_counter |-> 0,
        dst_seq |-> dst_seq, src_seq |-> src_seq]
  ELSE With(kiss99_next(rng), LAMBDA a :
         With(kiss99_next(a.rng), LAMBDA b :
           With(Swap(dst_seq, i - 1, a.value % i), LAMBDA d :
             With(Swap(src_seq, i - 1, b.value % i), LAMBDA s :
               FisherYates(b.rng, d, s, i - 1)))))

\* progpow.cpp:45-70.  The seed is a 64-bit number.
mix_rng_state(seed) ==
  LET seed_lo == Wrap(seed)
      seed_hi == Wrap(seed \div WordModulus)
      z == fnv1a(kFNV_OFFSET_BASIS, seed_lo)
      w == fnv1a(z, seed_hi)
      jsr == fnv1a(w, seed_lo)
      jcong == fnv1a(jsr, seed_hi)
      identity == Tabulate(kRegs, LAMBDA i : i - 1)
  IN  FisherYates(kiss99(z, w, jsr, jcong), identity, identity, kRegs)

\* progpow.hpp:45-46 and state.rng(): the value and the state left.
next_dst(state) ==
  [value |-> state.dst_seq[(state.dst_counter % kRegs) + 1],
   state |-> [state EXCEPT !.dst_counter = @ + 1]]

next_src(state) ==
  [value |-> state.src_seq[(state.src_counter % kRegs) + 1],
   state |-> [state EXCEPT !.src_counter = @ + 1]]

rng_next(state) ==
  LET drawn == kiss99_next(state.rng)
  IN  [value |-> drawn.value, state |-> [state EXCEPT !.rng = drawn.rng]]

\* progpow.cpp:72-91: the value left in a.
random_merge(a, b, sel) ==
  LET x == (shr(sel, HalfWordBits) % 31) + 1
  IN  CASE sel % 4 = 0 -> Wrap((a * 33) + b)
        [] sel % 4 = 1 -> Wrap(XOR(a, b) * 33)
        [] sel % 4 = 2 -> XOR(rotl32(a, x), b)
        [] sel % 4 = 3 -> XOR(rotr32(a, x), b)

\* progpow.cpp:114-142.
random_math(a, b, sel) ==
  CASE sel % 11 = 0 -> Wrap(a + b)
    [] sel % 11 = 1 -> Wrap(a * b)
    [] sel % 11 = 2 -> mul_hi32(a, b)
    [] sel % 11 = 3 -> IF a < b THEN a ELSE b
    [] sel % 11 = 4 -> rotl32(a, b)
    [] sel % 11 = 5 -> rotr32(a, b)
    [] sel % 11 = 6 -> AND(a, b)
    [] sel % 11 = 7 -> OR(a, b)
    [] sel % 11 = 8 -> XOR(a, b)
    [] sel % 11 = 9 -> Wrap(clz32(a) + clz32(b))
    [] sel % 11 = 10 -> Wrap(popcnt32(a) + popcnt32(b))

\* The mix is kLanes lanes of kRegs registers: mix.at(l).at(i) is
\* mix[l + 1][i + 1].
reg_at(mix, l, i) == mix[l + 1][i + 1]

\* The item index with half the number of items rounded up.
round_item_index_rounded_up(full_dataset_num_items, r, mix) ==
  reg_at(mix, r % kLanes, 0) % ((full_dataset_num_items + 1) \div 2)

\* progpow.cpp:373-374: num_items and item_index.
round_item_index(full_dataset_num_items, r, mix) ==
  reg_at(mix, r % kLanes, 0) % (full_dataset_num_items \div 2)

\* progpow.cpp:395: the offset into l1_cache of lane l's cache access.
cache_offset(mix, l, src) == reg_at(mix, l, src) % kL1_cache_words

\* The offset with the lane and the round or-ed.
dag_offset_or(l, r) == (OR(l, r) % kLanes) * kWords_per_lane

\* progpow.cpp:434: the offset into the item of the words of lane l.
dag_offset(l, r) == (XOR(l, r) % kLanes) * kWords_per_lane

\* context.l1_cache[offset], the L1 cache read as 32-bit words.
l1_cache_word(context, offset) ==
  item_at(context.l1_cache, offset \div Words1024)[(offset % Words1024) + 1]

\* ethash::detail::lazy_lookup_1024: the item, as hash_mix's lazy_lookup
\* (ethash.cpp:169-191) yields it.
lazy_lookup_1024(context, index) == lazy_lookup(context, index).item

\* progpow.cpp:389-391: the operands of one cache access, drawn in the
\* order of the three statements, and the state left.
cache_operands(state) ==
  With(next_src(state), LAMBDA src :
    With(next_dst(src.state), LAMBDA dst :
      With(rng_next(dst.state), LAMBDA sel :
        [src |-> src.value, dst |-> dst.value, sel |-> sel.value,
         state |-> sel.state])))

\* progpow.cpp:387-398: one random access to cached memory, in every lane.
CacheAccess(context, mix, state) ==
  With(cache_operands(state), LAMBDA o :
    [mix |-> Tabulate(kLanes, LAMBDA l :
               SetWord(mix[l], o.dst + 1,
                 random_merge(mix[l][o.dst + 1],
                              l1_cache_word(context, cache_offset(mix, l - 1, o.src)),
                              o.sel))),
     state |-> o.state])

\* The two sources without the step over src1.
math_sources_without_skip(rnd) ==
  LET src_rnd == rnd % (kRegs * (kRegs - 1))
  IN  [src1 |-> src_rnd % kRegs, src2 |-> src_rnd \div kRegs]

\* progpow.cpp:402-408: the two source registers derived from one value of
\* the generator.
math_sources(rnd) ==
  LET src_rnd == rnd % (kRegs * (kRegs - 1))
      src1 == src_rnd % kRegs
      below == src_rnd \div kRegs
  IN  [src1 |-> src1, src2 |-> IF below >= src1 THEN below + 1 ELSE below]

\* The math operands with the merge selector drawn before the math selector.
math_operands_merge_selector_first(state) ==
  With(rng_next(state), LAMBDA rnd :
    With(rng_next(rnd.state), LAMBDA sel2 :
      With(next_dst(sel2.state), LAMBDA dst :
        With(rng_next(dst.state), LAMBDA sel1 :
          [src1 |-> math_sources(rnd.value).src1,
           src2 |-> math_sources(rnd.value).src2,
           sel1 |-> sel1.value, dst |-> dst.value, sel2 |-> sel2.value,
           state |-> sel1.state]))))

\* progpow.cpp:402-412: the operands of one random math operation, drawn in
\* the order of the statements (src_rnd, sel1, dst, sel2), and the state left.
math_operands(state) ==
  With(rng_next(state), LAMBDA rnd :
    With(rng_next(rnd.state), LAMBDA sel1 :
      With(next_dst(sel1.state), LAMBDA dst :
        With(rng_next(dst.state), LAMBDA sel2 :
          [src1 |-> math_sources(rnd.value).src1,
           src2 |-> math_sources(rnd.value).src2,
           sel1 |-> sel1.value, dst |-> dst.value, sel2 |-> sel2.value,
           state |-> sel2.state]))))

\* progpow.cpp:399-419: one random math operation, in every lane.
RandomMath(mix, state) ==
  With(math_operands(state), LAMBDA o :
    [mix |-> Tabulate(kLanes, LAMBDA l :
               SetWord(mix[l], o.dst + 1,
                 random_merge(mix[l][o.dst + 1],
                              random_math(mix[l][o.src1 + 1], mix[l][o.src2 + 1],
                                          o.sel1),
                              o.sel2))),
     state |-> o.state])

max_operations == IF kCache_count > kMath_count THEN kCache_count ELSE kMath_count

\* progpow.cpp:382-420: the loop over i.
RECURSIVE ProcessLanes(_, _, _, _)
ProcessLanes(context, mix, state, i) ==
  IF i = max_operations THEN [mix |-> mix, state |-> state]
  ELSE With(IF i < kCache_count THEN CacheAccess(context, mix, state)
            ELSE [mix |-> mix, state |-> state], LAMBDA cached :
         With(IF i < kMath_count THEN RandomMath(cached.mix, cached.state)
              ELSE cached, LAMBDA done :
           ProcessLanes(context, done.mix, done.state, i + 1)))

\* progpow.cpp:423-429: dsts and sels, and the state the draws leave.
RECURSIVE DagPattern(_, _, _, _)
DagPattern(state, dsts, sels, i) ==
  IF i = kWords_per_lane THEN [dsts |-> dsts, sels |-> sels, state |-> state]
  ELSE With(IF i = 0 THEN [value |-> 0, state |-> state] ELSE next_dst(state), LAMBDA dst :
         With(rng_next(dst.state), LAMBDA sel :
           DagPattern(sel.state, Append(dsts, dst.value), Append(sels, sel.value), i + 1)))

\* progpow.cpp:435-439: the words of one lane's slice merged in turn.
RECURSIVE DagMerge(_, _, _, _, _)
DagMerge(lane, item, offset, pattern, i) ==
  IF i = kWords_per_lane THEN lane
  ELSE With(SetWord(lane, pattern.dsts[i + 1] + 1,
                    random_merge(lane[pattern.dsts[i + 1] + 1],
                                 item[offset + i + 1],
                                 pattern.sels[i + 1])), LAMBDA merged :
         DagMerge(merged, item, offset, pattern, i + 1))

\* progpow.cpp:369-441.  The state is passed by value: the round returns the
\* mix alone.
round(context, r, mix, state) ==
  LET item_index == round_item_index(context.full_dataset_num_items, r, mix)
      item1024_index == item_index * 2
  IN  With(Concat(lazy_lookup_1024(context, item1024_index),
                  lazy_lookup_1024(context, item1024_index + 1)), LAMBDA item :
        With(ProcessLanes(context, mix, state, 0), LAMBDA lanes :
          With(DagPattern(lanes.state, << >>, << >>, 0), LAMBDA pattern :
            Tabulate(kLanes, LAMBDA l :
              DagMerge(lanes.mix[l], item,
                       dag_offset(l - 1, r), pattern, 0)))))

\* progpow.cpp:444-461.
RECURSIVE FillLane(_, _, _)
FillLane(rng, row, i) ==
  IF i = kRegs THEN row
  ELSE With(kiss99_next(rng), LAMBDA drawn :
         FillLane(drawn.rng, Append(row, drawn.value), i + 1))

init_mix(seed) ==
  LET z == fnv1a(kFNV_OFFSET_BASIS, Wrap(seed))
      w == fnv1a(z, Wrap(seed \div WordModulus))
  IN  Tabulate(kLanes, LAMBDA k :
        LET l == k - 1
            jsr == fnv1a(w, l)
            jcong == fnv1a(jsr, l)
        IN  FillLane(kiss99(z, w, jsr, jcong), << >>, 0))


(***************************************************************************)
(* keccak-f[800] takes and leaves 25 32-bit words.  The words written into *)
(* its state are kept whole, as their two 16-bit halves <<high, low>>; the *)
(* permutation works on them narrowed to the model's word.                 *)
(***************************************************************************)
Word32(high, low) == <<high, low>>
Widen(v) == Word32(0, v)
Narrow(word) == Wrap(word[2])

keccakf800(state) ==
  With(Tabulate(25, LAMBDA i : Narrow(state[i])), LAMBDA narrowed : keccak(narrowed, 25))

\* progpow.cpp:466-472: the state hash_seed hands to keccakf800.
hash_seed_state(header_hash, nonce) ==
  Tabulate(25, LAMBDA k :
    IF k - 1 < Words256 THEN Widen(header_hash[k])
    ELSE IF k - 1 < Words256 + 2 THEN Widen(NonceWords(nonce)[k - Words256])
    ELSE IF k - 1 = 10 THEN Word32(0, 1)
    ELSE IF k - 1 = 18 THEN Word32(32768, 32897)
    ELSE Word32(0, 0))

\* progpow.cpp:464-478.
progpow_hash_seed(header_hash, nonce) ==
  Slice(keccakf800(hash_seed_state(header_hash, nonce)), 1, Words256)

\* progpow.cpp:369-441: the state round's parameter is in when round returns,
\* after the draws of the loop over i and of lines 423-429.
round_state(context, mix, state) ==
  DagPattern(ProcessLanes(context, mix, state, 0).state, << >>, << >>, 0).state

\* The iteration with the state passed by reference: the caller's state is
\* the one the round leaves.
hash_mix_round_by_reference(context, i, mix, state) ==
  [mix |-> round(context, i, mix, state), state |-> round_state(context, mix, state)]

\* progpow.cpp:488, one iteration of hash_mix's loop: round(context, i, mix,
\* state) changes the caller's mix and, taking the state by value
\* (progpow.cpp:369), leaves the caller's state as it was.
hash_mix_round(context, i, mix, state) ==
  [mix |-> round(context, i, mix, state), state |-> state]

\* progpow.cpp:486-489: the rounds.
RECURSIVE DagRounds(_, _, _, _)
DagRounds(context, mix, state, i) ==
  IF i = kDag_count THEN mix
  ELSE With(hash_mix_round(context, i, mix, state), LAMBDA next :
         DagRounds(context, next.mix, next.state, i + 1))

\* progpow.cpp:492-500.
RECURSIVE LaneHash(_, _, _)
LaneHash(lane, lane_hash, i) ==
  IF i = kRegs THEN lane_hash
  ELSE LaneHash(lane, fnv1a(lane_hash, lane[i + 1]), i + 1)

\* progpow.cpp:503-513.
RECURSIVE ReduceLanes(_, _, _)
ReduceLanes(mix_hash, lane_hash, l) ==
  IF l = kLanes THEN mix_hash
  ELSE With(SetWord(mix_hash, (l % Words256) + 1,
                    fnv1a(mix_hash[(l % Words256) + 1], lane_hash[l + 1])), LAMBDA reduced :
         ReduceLanes(reduced, lane_hash, l + 1))

\* progpow.cpp:492-513: the lanes reduced to the mix hash.
reduce_mix(mix) ==
  With(Tabulate(kLanes, LAMBDA l : LaneHash(mix[l], Wrap(kFNV_OFFSET_BASIS), 0)),
       LAMBDA lane_hash :
    ReduceLanes(Tabulate(Words256, LAMBDA i : Wrap(kFNV_OFFSET_BASIS)), lane_hash, 0))

\* progpow.cpp:480-523.
progpow_hash_mix(context, period, seed) ==
  With(init_mix(seed), LAMBDA initial :
    With(mix_rng_state(period), LAMBDA state :
      With(DagRounds(context, initial, state, 0), LAMBDA mix : reduce_mix(mix))))

\* progpow.cpp:528-531: the state hash_final hands to keccakf800.
hash_final_state(input_hash, seed_64, mix_hash) ==
  Tabulate(25, LAMBDA k :
    IF k - 1 < Words256 THEN Widen(input_hash[k])
    ELSE IF k - 1 = 17 THEN Word32(0, 1)
    ELSE IF k - 1 = 24 THEN Word32(32768, 32897)
    ELSE Word32(0, 0))

\* progpow.cpp:525-536.
progpow_hash_final(input_hash, seed_64, mix_hash) ==
  Slice(keccakf800(hash_final_state(input_hash, seed_64, mix_hash)), 1, Words256)

\* seed_hash.word64s[0]
seed_64_of(seed_hash) == seed_hash[1] + WordModulus * seed_hash[2]

\* progpow.cpp:538-546.
progpow_hash(context, period, header_hash, nonce) ==
  With(progpow_hash_seed(header_hash, nonce), LAMBDA seed_hash :
    With(progpow_hash_mix(context, period, seed_64_of(seed_hash)), LAMBDA mix_hash :
      [final_hash |-> progpow_hash_final(seed_hash, seed_64_of(seed_hash), mix_hash),
       mix_hash |-> mix_hash]))

\* progpow.cpp:553-561: verify_full's answer for the result of line 552.
progpow_verify_full_mix_first(result, mix_hash, boundary) ==
  IF ~is_equal(result.mix_hash, mix_hash) THEN "kInvalidMixHash"
  ELSE IF ~is_less_or_equal(result.final_hash, boundary) THEN "kInvalidNonce"
  ELSE "kOk"

progpow_verify_full(result, mix_hash, boundary) ==
  IF ~is_less_or_equal(result.final_hash, boundary) THEN "kInvalidNonce"
  ELSE IF ~is_equal(result.mix_hash, mix_hash) THEN "kInvalidMixHash"
  ELSE "kOk"


(***************************************************************************)
(* SpecVerify: progpow::verify_full(block_number, ...), progpow.cpp        *)
(* 564-571, called by one thread at a time.  The call enters               *)
(* get_epoch_context (line 568) and goes through the registry's steps;     *)
(* when that has returned, lines 569-570 compute the period, hash and      *)
(* compare, and the handle goes out of scope.  mix_hash and boundary are   *)
(* first read at lines 553 and 557: they are drawn there, mix_hash from    *)
(* the mix the hash yields and one that it does not.                       *)
(***************************************************************************)
epoch_length == 2        \* blocks of one epoch (7500 in the program)
MaxBlock == 3            \* block numbers verified are 0..MaxBlock
MaxVerifyHeader == 1     \* header hashes verified: keccak256 of <<0>> .. <<MaxVerifyHeader>>
MaxVerifyNonce == 1      \* nonces verified are 0..MaxVerifyNonce

Blocks == 0..MaxBlock
VerifyHeaders == {keccak256(<<k>>) : k \in 0..MaxVerifyHeader}
VerifyNonces == 0..MaxVerifyNonce

\* No hash is above the first boundary and none below the second; the third
\* has the top bit of its first byte set and no other.
Boundaries ==
  { Tabulate(Words256, LAMBDA i : WordModulus - 1),
    ZeroHash(Words256),
    Tabulate(Words256, LAMBDA i : IF i = 1 THEN ByteModulus \div 2 ELSE 0) }

\* ethash.cpp:444
calculate_epoch_from_block_num(block_number) == block_number \div epoch_length

NoVerify == [stage |-> "idle", thread |-> NoThread, block_number |-> 0,
             header_hash |-> << >>, nonce |-> 0, period |-> 0,
             mix_hash |-> << >>, boundary |-> << >>,
             seed_hash |-> << >>, final_state |-> << >>,
             result |-> [final_hash |-> << >>, mix_hash |-> << >>],
             verdict |-> "none"]

InitVerify == vf = NoVerify

\* Lines 567-568, up to get_epoch_context's first step.
VerifyFullEnter(t, block_number, header_hash, nonce) ==
  /\ vf.stage \in {"idle", "done"}
  /\ handle[t] = NoHandle
  /\ GetEpochContextCall(t, calculate_epoch_from_block_num(block_number), FALSE)
  /\ vf' = [NoVerify EXCEPT !.stage = "context", !.thread = t,
                            !.block_number = block_number,
                            !.header_hash = header_hash, !.nonce = nonce]
  /\ UNCHANGED <<dsVars, seedVars, progVars, unitVars>>

\* The period of Kawpow's parameter table (README.md:126).
PROGPOW_PERIOD == 3

progpow_period_of_three(block_number) == block_number \div PROGPOW_PERIOD

\* progpow.cpp:569: auto progpow_period{block_number / progpow::kPeriodLength};
progpow_period(block_number) == block_number \div kPeriodLength

\* Lines 569-570 and 552-561, get_epoch_context having returned.  A null
\* handle is dereferenced at line 570 all the same: the call returns any
\* result or does not return.
VerifyFullFinish(t) ==
  /\ vf.stage = "context"
  /\ vf.thread = t
  /\ DropHandleCall(t)
  /\ IF handle[t] = Null
     THEN \E verdict \in {"kOk", "kInvalidNonce", "kInvalidMixHash", "none"} :
            vf' = [vf EXCEPT !.stage = "undefined",
                             !.period = progpow_period(vf.block_number),
                             !.verdict = verdict]
     ELSE \E result \in {progpow_hash(
                            create_epoch_context(contexts[handle[t]].epoch_number,
                                                 contexts[handle[t]].full_dataset),
                            progpow_period(vf.block_number),
                            vf.header_hash, vf.nonce)} :
          \E mix_hash \in {result.mix_hash, ZeroHash(Words256)}, boundary \in Boundaries :
            vf' = [vf EXCEPT
                     !.stage = "done",
                     !.period = progpow_period(vf.block_number),
                     !.mix_hash = mix_hash,
                     !.boundary = boundary,
                     !.seed_hash = progpow_hash_seed(vf.header_hash, vf.nonce),
                     !.final_state =
                        hash_final_state(progpow_hash_seed(vf.header_hash, vf.nonce),
                                         seed_64_of(progpow_hash_seed(vf.header_hash, vf.nonce)),
                                         result.mix_hash),
                     !.result = result,
                     !.verdict = progpow_verify_full(result, mix_hash, boundary)]
  /\ UNCHANGED <<dsVars, seedVars, progVars, unitVars>>

NextVerify ==
  \E t \in Threads :
    \/ \E block_number \in Blocks, header_hash \in VerifyHeaders, nonce \in VerifyNonces :
         VerifyFullEnter(t, block_number, header_hash, nonce)
    \/ AdoptShared(t)
    \/ BuildShared(t)
    \/ BuildSharedFails(t)
    \/ Unlock(t)
    \/ Return(t)
    \/ VerifyFullFinish(t)


(***************************************************************************)
(* C7, C8, C9                                                              *)
(***************************************************************************)
\* The 32 bytes of a hash256 in memory order: the four bytes of each
\* word32, low byte first.
BytesOf(h) ==
  Tabulate(4 * Len(h), LAMBDA k :
    (h[((k - 1) \div 4) + 1] \div (ByteModulus ^ ((k - 1) % 4))) % ByteModulus)

\* a <= b as 256-bit numbers whose first byte is the most significant.
RECURSIVE BytesLessOrEqualFrom(_, _, _)
BytesLessOrEqualFrom(a, b, i) ==
  IF i > Len(a) THEN TRUE
  ELSE IF a[i] < b[i] THEN TRUE
  ELSE IF a[i] > b[i] THEN FALSE
  ELSE BytesLessOrEqualFrom(a, b, i + 1)

WithinBoundary(final_hash, boundary) ==
  BytesLessOrEqualFrom(BytesOf(final_hash), BytesOf(boundary), 1)

\* C7: verify_full answers kInvalidNonce exactly when the final hash is
\* above the boundary, whether or not the mix hash is right;
\* kInvalidMixHash exactly when the final hash is within the boundary and
\* the mix hash differs from the computed one; kOk exactly when the final
\* hash is within the boundary and the mix hashes are equal.
C7_BoundaryBeforeMixHash ==
  vf.stage = "done" =>
     LET within == WithinBoundary(vf.result.final_hash, vf.boundary)
         same == vf.result.mix_hash = vf.mix_hash
     IN  /\ vf.verdict = "kInvalidNonce" <=> ~within
         /\ vf.verdict = "kInvalidMixHash" <=> (within /\ ~same)
         /\ vf.verdict = "kOk" <=> (within /\ same)

\* A verification of a final hash above a boundary other than zero, with a
\* wrong mix hash as well, answered kInvalidNonce.
C7_Witness ==
  /\ vf.stage = "done"
  /\ vf.boundary # ZeroHash(Words256)
  /\ ~WithinBoundary(vf.result.final_hash, vf.boundary)
  /\ vf.result.mix_hash # vf.mix_hash
  /\ vf.verdict = "kInvalidNonce"

\* C8: the state hash_final hands to keccak-f[800] holds the seed hash in
\* words 0..7, the mix hash in words 8..15, 0x00000001 in word 17,
\* 0x80008081 in word 24 and zero in every other word.
C8_FinalStateHoldsSeedAndMix ==
  vf.stage = "done" =>
     \A i \in 0..24 :
        vf.final_state[i + 1] =
           IF i < Words256 THEN Widen(vf.seed_hash[i + 1])
           ELSE IF i < 2 * Words256 THEN Widen(vf.result.mix_hash[i + 1 - Words256])
           ELSE IF i = 17 THEN Word32(0, 1)
           ELSE IF i = 24 THEN Word32(32768, 32897)
           ELSE Word32(0, 0)

MaxProgSeed == 63     \* program seeds are 0..MaxProgSeed

ProgSeeds == 0..MaxProgSeed
kernel_type == {"Cuda", "OpenCL"}

\* progpow.cpp:382-420: the operands the loop over i draws, in its order.
RECURSIVE LaneOperations(_, _, _)
LaneOperations(state, ops, i) ==
  IF i = max_operations THEN [ops |-> ops, state |-> state]
  ELSE With(IF i < kCache_count
            THEN With(cache_operands(state), LAMBDA o :
                   [ops |-> Append(ops, [kind |-> "cache", src |-> o.src,
                                         dst |-> o.dst, sel |-> o.sel]),
                    state |-> o.state])
            ELSE [ops |-> ops, state |-> state], LAMBDA cached :
         With(IF i < kMath_count
              THEN With(math_operands(cached.state), LAMBDA o :
                     [ops |-> Append(cached.ops,
                                [kind |-> "math", src1 |-> o.src1, src2 |-> o.src2,
                                 sel1 |-> o.sel1, dst |-> o.dst, sel2 |-> o.sel2]),
                      state |-> o.state])
              ELSE cached, LAMBDA done :
           LaneOperations(done.state, done.ops, i + 1)))

\* progpow.cpp:369-441: the operations of one round on each lane: the cache
\* accesses and random math of the loop, then the merges of the DAG words
\* word32s[offset + i] into the registers dsts[i] with the selectors sels[i].
round_operations(state) ==
  With(LaneOperations(state, << >>, 0), LAMBDA lanes :
    With(DagPattern(lanes.state, << >>, << >>, 0), LAMBDA pattern :
      lanes.ops \o Tabulate(kWords_per_lane, LAMBDA k :
                     [kind |-> "dag", word |-> k - 1,
                      dst |-> pattern.dsts[k], sel |-> pattern.sels[k]])))

\* progpow.cpp:75-76: the case random_merge's switch takes and the rotation
\* amount it computes.
merge_case(sel) ==
  [formula |-> sel % 4, x |-> (shr(sel, HalfWordBits) % 31) + 1]

\* progpow.cpp:117: the case random_math's switch takes.
math_case(sel) == sel % 11

\* progpow.cpp:96-112: the statement emitted; the rotation amount is part of
\* the text of formulas 2 and 3 only.
random_merge_src(a, b, r) ==
  [a |-> a, b |-> b, formula |-> r % 4,
   x |-> IF r % 4 \in {2, 3} THEN (shr(r, HalfWordBits) % 31) + 1 ELSE 0]

\* progpow.cpp:145-173: the statement emitted.
random_math_src(d, a, b, r) == [d |-> d, a |-> a, b |-> b, formula |-> r % 11]

\* "mix[n]"
MixReg(n) == <<"mix", n>>

\* progpow.cpp:314-320: getKern's two source registers.
kern_math_sources(rnd) ==
  LET src_rnd == rnd % (kRegs * (kRegs - 1))
      src1 == src_rnd % kRegs
      src2 == src_rnd \div kRegs
  IN  [src1 |-> src1, src2 |-> IF src2 >= src1 THEN src2 + 1 ELSE src2]

\* progpow.cpp:297-309: "// cache load i".
KernCacheLoad(state) ==
  With(next_src(state), LAMBDA src :
    With(next_dst(src.state), LAMBDA dest :
      With(rng_next(dest.state), LAMBDA sel :
        [stmt |-> [kind |-> "cache load", offset |-> MixReg(src.value),
                   merge |-> random_merge_src(MixReg(dest.value), <<"data">>, sel.value)],
         state |-> sel.state])))

\* progpow.cpp:310-333: "// random math i": src_rnd, sel1 and sel2 are drawn
\* before the destination.
KernRandomMath(state) ==
  With(rng_next(state), LAMBDA src_rnd :
    With(rng_next(src_rnd.state), LAMBDA sel1 :
      With(rng_next(sel1.state), LAMBDA sel2 :
        With(next_dst(sel2.state), LAMBDA dest :
          [stmt |-> [kind |-> "random math",
                     math |-> random_math_src(<<"data">>,
                                MixReg(kern_math_sources(src_rnd.value).src1),
                                MixReg(kern_math_sources(src_rnd.value).src2),
                                sel1.value),
                     merge |-> random_merge_src(MixReg(dest.value), <<"data">>, sel2.value)],
           state |-> dest.state]))))

\* progpow.cpp:295-334.
RECURSIVE KernLoop(_, _, _)
KernLoop(state, stmts, i) ==
  IF ~((i < kCache_count) \/ (i < kMath_count)) THEN [stmts |-> stmts, state |-> state]
  ELSE With(IF i < kCache_count
            THEN With(KernCacheLoad(state), LAMBDA c :
                   [stmts |-> Append(stmts, c.stmt), state |-> c.state])
            ELSE [stmts |-> stmts, state |-> state], LAMBDA cached :
         With(IF i < kMath_count
              THEN With(KernRandomMath(cached.state), LAMBDA c :
                     [stmts |-> Append(cached.stmts, c.stmt), state |-> c.state])
              ELSE cached, LAMBDA done :
           KernLoop(done.state, done.stmts, i + 1)))

\* progpow.cpp:347-353: "// consume global load data".
RECURSIVE KernDagLoads(_, _, _)
KernDagLoads(state, stmts, i) ==
  IF i = kDag_loads THEN stmts
  ELSE IF i = 0
  THEN With(rng_next(state), LAMBDA sel :
         KernDagLoads(sel.state,
            Append(stmts, [kind |-> "dag",
                           merge |-> random_merge_src(MixReg(0), <<"data_dag.s", 0>>,
                                                      sel.value)]), 1))
  ELSE With(next_dst(state), LAMBDA dst :
         With(rng_next(dst.state), LAMBDA sel :
           KernDagLoads(sel.state,
              Append(stmts, [kind |-> "dag",
                             merge |-> random_merge_src(MixReg(dst.value),
                                                        <<"data_dag.words", i>>,
                                                        sel.value)]), i + 1)))

\* progpow.cpp:175-365: the loop body of the kernel source for prog_seed.
\* The lines that depend on kern declare and synchronise; the operations
\* are emitted by the same statements for both kinds.
getKern(prog_seed, kern) ==
  With(KernLoop(mix_rng_state(prog_seed), << >>, 0), LAMBDA body :
    [kern |-> kern, loop |-> KernDagLoads(body.state, body.stmts, 0)])

NoKern == [called |-> FALSE, prog_seed |-> 0, kern |-> "Cuda", loop |-> << >>]

InitKern == kn = NoKern

GetKern(prog_seed, kern) ==
  /\ kn' = [called |-> TRUE, prog_seed |-> prog_seed, kern |-> kern,
            loop |-> getKern(prog_seed, kern).loop]
  /\ UNCHANGED <<nonProgVars, fy>>

NextKern == \E prog_seed \in ProgSeeds, kern \in kernel_type : GetKern(prog_seed, kern)

(***************************************************************************)
(* C12                                                                     *)
(***************************************************************************)
\* The emitted merge statement evaluates the formula random_merge evaluates
\* for sel, into the register dst.
SameMerge(merge, dst, sel) ==
  /\ merge.a = MixReg(dst)
  /\ merge.formula = merge_case(sel).formula
  /\ merge.formula \in {2, 3} => merge.x = merge_case(sel).x

SameOperation(stmt, op) ==
  CASE op.kind = "cache" ->
         /\ stmt.kind = "cache load"
         /\ stmt.offset = MixReg(op.src)
         /\ SameMerge(stmt.merge, op.dst, op.sel)
    [] op.kind = "math" ->
         /\ stmt.kind = "random math"
         /\ stmt.math.a = MixReg(op.src1)
         /\ stmt.math.b = MixReg(op.src2)
         /\ stmt.math.formula = math_case(op.sel1)
         /\ SameMerge(stmt.merge, op.dst, op.sel2)
    [] op.kind = "dag" ->
         /\ stmt.kind = "dag"
         /\ stmt.merge.b[2] = op.word
         /\ SameMerge(stmt.merge, op.dst, op.sel)

NoShuffle == [pc |-> "idle", seed |-> 0, i |-> 0, rng |-> kiss99(0, 0, 0, 0),
              dst_seq |-> << >>, src_seq |-> << >>]

InitShuffle == fy = NoShuffle

\* Lines 47-63: the generator is seeded and both sequences hold 0..kRegs-1.
MixRngStateBegin(seed) ==
  /\ fy.pc \in {"idle", "done"}
  /\ LET seed_lo == Wrap(seed)
         seed_hi == Wrap(seed \div WordModulus)
         z == fnv1a(kFNV_OFFSET_BASIS, seed_lo)
         w == fnv1a(z, seed_hi)
         jsr == fnv1a(w, seed_lo)
         jcong == fnv1a(jsr, seed_hi)
     IN  fy' = [pc |-> "loop", seed |-> seed, i |-> kRegs,
                rng |-> kiss99(z, w, jsr, jcong),
                dst_seq |-> Tabulate(kRegs, LAMBDA k : k - 1),
                src_seq |-> Tabulate(kRegs, LAMBDA k : k - 1)]
  /\ UNCHANGED <<nonProgVars, kn>>

\* Lines 65-69: one iteration, i > 1.
MixRngStateSwap ==
  /\ fy.pc = "loop"
  /\ fy.i > 1
  /\ \E a \in {kiss99_next(fy.rng)} :
     \E b \in {kiss99_next(a.rng)} :
       fy' = [fy EXCEPT !.dst_seq = Swap(fy.dst_seq, fy.i - 1, a.value % fy.i),
                        !.src_seq = Swap(fy.src_seq, fy.i - 1, b.value % fy.i),
                        !.rng = b.rng,
                        !.i = fy.i - 1]
  /\ UNCHANGED <<nonProgVars, kn>>

\* Line 65, i = 1: the loop and the constructor end.
MixRngStateEnd ==
  /\ fy.pc = "loop"
  /\ fy.i <= 1
  /\ fy' = [fy EXCEPT !.pc = "done"]
  /\ UNCHANGED <<nonProgVars, kn>>

NextShuffle ==
  \/ \E seed \in ProgSeeds : MixRngStateBegin(seed)
  \/ MixRngStateSwap
  \/ MixRngStateEnd

(***************************************************************************)
(* C13                                                                     *)
(***************************************************************************)
IsPermutation(seq) ==
  /\ Len(seq) = kRegs
  /\ \A v \in 0..(kRegs - 1) : Cardinality({k \in 1..kRegs : seq[k] = v}) = 1

\* C13: dst_seq_ and src_seq_ are each a permutation of 0..kRegs-1 after
\* every iteration of the shuffle loop, and so in the constructed
\* mix_rng_state, for every seed.
C13_SequencesArePermutations ==
  /\ fy.pc # "idle" => IsPermutation(fy.dst_seq) /\ IsPermutation(fy.src_seq)
  /\ fy.pc = "done" =>
        /\ fy.dst_seq = mix_rng_state(fy.seed).dst_seq
        /\ fy.src_seq = mix_rng_state(fy.seed).src_seq

\* A constructed state, its seed above 32 bits' worth of the model's word,
\* whose two sequences differ from each other and from 0..kRegs-1.
C13_Witness ==
  /\ fy.pc = "done"
  /\ fy.seed >= WordModulus
  /\ fy.dst_seq # fy.src_seq
  /\ fy.dst_seq # Tabulate(kRegs, LAMBDA k : k - 1)
  /\ fy.src_seq # Tabulate(kRegs, LAMBDA k : k - 1)

(***************************************************************************)
(* SpecSizes: the item counts of an epoch (ethash.cpp:328-356).            *)
(***************************************************************************)
MaxSizeEpoch == 63    \* epochs are 0..MaxSizeEpoch (0..1024 in the claim)

NoCall == [fn |-> "none", args |-> << >>, result |-> 0]

InitUnit == un = NoCall

CalculateLightCacheNumItems(epoch_number) ==
  /\ un' = [fn |-> "calculate_light_cache_num_items", args |-> <<epoch_number>>,
            result |-> calculate_light_cache_num_items(epoch_number)]
  /\ UNCHANGED nonUnitVars

CalculateFullDatasetNumItems(epoch_number) ==
  /\ un' = [fn |-> "calculate_full_dataset_num_items", args |-> <<epoch_number>>,
            result |-> calculate_full_dataset_num_items(epoch_number)]
  /\ UNCHANGED nonUnitVars

NextSizes ==
  \E epoch_number \in 0..MaxSizeEpoch :
    \/ CalculateLightCacheNumItems(epoch_number)
    \/ CalculateFullDatasetNumItems(epoch_number)

(***************************************************************************)
(* C14                                                                     *)
(***************************************************************************)
IsPrime(p) == p > 1 /\ \A d \in 2..(p - 1) : p % d # 0

\* p is the largest odd prime that does not exceed upper_bound.
LargestOddPrimeAtMost(p, upper_bound) ==
  /\ p <= upper_bound
  /\ p % 2 = 1
  /\ IsPrime(p)
  /\ \A q \in (p + 1)..upper_bound : ~(q % 2 = 1 /\ IsPrime(q))

MaxDifficulty == 127    \* difficulties are 0..MaxDifficulty

Uint256Bytes == 4 * Words256

\* intx::from_string("0xff...ff")
dividend == Tabulate(Uint256Bytes, LAMBDA k : ByteModulus - 1)

\* intx::uint256 operator/ by a divisor of one limb: the quotient's bytes,
\* from the most significant byte down.
RECURSIVE DivideFrom(_, _, _, _, _)
DivideFrom(x, divisor, k, remainder, quotient) ==
  IF k = 0 THEN quotient
  ELSE DivideFrom(x, divisor, k - 1,
                  (remainder * ByteModulus + x[k]) % divisor,
                  <<(remainder * ByteModulus + x[k]) \div divisor>> \o quotient)

intx_div(x, divisor) == DivideFrom(x, divisor, Len(x), 0, << >>)

\* The bytes left in their order.
intx_no_bswap(x) == x

\* intx::bswap: the order of the 32 bytes reversed.
intx_bswap(x) == Tabulate(Len(x), LAMBDA k : x[Len(x) + 1 - k])

\* std::memcpy(ret.bytes, data, 32): the four bytes of each word32, low
\* byte first.
from_bytes(data) ==
  Tabulate(Len(data) \div 4, LAMBDA w :
    data[4 * w - 3] + ByteModulus * data[4 * w - 2]
      + (ByteModulus ^ 2) * data[4 * w - 1] + (ByteModulus ^ 3) * data[4 * w])

get_boundary_from_diff(difficulty) ==
  IF difficulty > 1
  THEN from_bytes(intx_bswap(intx_div(dividend, difficulty)))
  ELSE from_bytes(dividend)

GetBoundaryFromDiff(difficulty) ==
  /\ un' = [fn |-> "get_boundary_from_diff", args |-> <<difficulty>>,
            result |-> get_boundary_from_diff(difficulty)]
  /\ UNCHANGED nonUnitVars

NextBoundary == \E difficulty \in 0..MaxDifficulty : GetBoundaryFromDiff(difficulty)

(***************************************************************************)
(* C15                                                                     *)
(***************************************************************************)
\* bytes * factor + carry, bytes being a number whose first byte is the most
\* significant: the bytes of the product and the carry out of the first.
RECURSIVE TimesPlus(_, _, _, _)
TimesPlus(bytes, factor, carry, k) ==
  IF k = 0 THEN [bytes |-> bytes, carry |-> carry]
  ELSE TimesPlus([bytes EXCEPT ![k] = (bytes[k] * factor + carry) % ByteModulus],
                 factor, (bytes[k] * factor + carry) \div ByteModulus, k - 1)

\* C15: for every difficulty d >= 1 the 32 bytes of get_boundary_from_diff(d),
\* read as a number whose first byte is the most significant, are
\* floor((2^256 - 1) / d): q * d + r = 2^256 - 1 with 0 <= r < d.  For d = 1
\* every byte is 0xFF, for d = 2 the first is 0x7F and the others 0xFF.
C15_BoundaryIsQuotientBigEndian ==
  un.fn = "get_boundary_from_diff" /\ un.args[1] >= 1 =>
     LET d == un.args[1]
         bytes == BytesOf(un.result)
     IN  /\ \E r \in 0..(d - 1) :
              TimesPlus(bytes, d, r, Len(bytes)) = [bytes |-> dividend, carry |-> 0]
         /\ d = 1 => bytes = dividend
         /\ d = 2 => bytes = <<(ByteModulus \div 2) - 1>> \o Tail(dividend)

\* The boundary of a difficulty that does not divide 2^256 - 1 and whose
\* quotient reads differently from its two ends.
C15_Witness ==
  /\ un.fn = "get_boundary_from_diff"
  /\ un.args[1] > 2
  /\ TimesPlus(BytesOf(un.result), un.args[1], 0, Uint256Bytes).bytes # dividend
  /\ BytesOf(un.result) # intx_bswap(BytesOf(un.result))

(***************************************************************************)
(* SpecItems: calculate_dataset_item_1024 and calculate_dataset_item_2048  *)
(* (ethash.cpp:99-129) called on the contexts of the model's epochs.       *)
(***************************************************************************)
MaxItemIndex == 31    \* items computed have index 0..MaxItemIndex

\* A context for another epoch is built (ethash.cpp:229-267).
CreateItemsContext(epoch_number) ==
  /\ epoch_context.epoch_number # epoch_number
  /\ epoch_context' = create_epoch_context(epoch_number, TRUE)
  /\ un' = NoCall
  /\ UNCHANGED <<lk, hm>>
  /\ UNCHANGED <<regVars, seedVars, verifyVars, progVars>>

CalculateDatasetItem1024(index) ==
  /\ un' = [fn |-> "calculate_dataset_item_1024", args |-> <<index>>,
            result |-> calculate_dataset_item_1024(epoch_context, index)]
  /\ UNCHANGED nonUnitVars

CalculateDatasetItem2048(index) ==
  /\ un' = [fn |-> "calculate_dataset_item_2048", args |-> <<index>>,
            result |-> calculate_dataset_item_2048(epoch_context, index)]
  /\ UNCHANGED nonUnitVars

NextItems ==
  \/ \E epoch_number \in Epochs : CreateItemsContext(epoch_number)
  \/ \E index \in 0..MaxItemIndex :
       \/ CalculateDatasetItem1024(index)
       \/ CalculateDatasetItem2048(index)

(***************************************************************************)
(* C17                                                                     *)
(***************************************************************************)
\* The k-th 512-bit sub-item of a pack, k from 0.
SubItem(pack, k) == Slice(pack, k * Words512 + 1, Words512)

\* C17: calculate_dataset_item_2048(j) is calculate_dataset_item_1024(2j)
\* followed by calculate_dataset_item_1024(2j + 1), and sub-item k of a pack
\* that starts at index `first` is the item that one item_state computes
\* alone (keccak512, every parent round, keccak512) for index first + k.
C17_PackIsSequentialItems ==
  /\ un.fn = "calculate_dataset_item_2048" =>
       /\ un.result = Concat(calculate_dataset_item_1024(epoch_context, 2 * un.args[1]),
                             calculate_dataset_item_1024(epoch_context, 2 * un.args[1] + 1))
       /\ Len(un.result) = Words2048
       /\ \A k \in 0..3 :
            SubItem(un.result, k) = dataset_item_512(epoch_context, 4 * un.args[1] + k)
  /\ un.fn = "calculate_dataset_item_1024" =>
       /\ Len(un.result) = Words1024
       /\ \A k \in 0..1 :
            SubItem(un.result, k) = dataset_item_512(epoch_context, 2 * un.args[1] + k)

\* A pack of four whose sub-items all differ and whose first parents differ:
\* stepped together, the item_states follow different parents.
C17_Witness ==
  /\ un.fn = "calculate_dataset_item_2048"
  /\ un.args[1] > 0
  /\ \A k, l \in 0..3 : k # l => SubItem(un.result, k) # SubItem(un.result, l)
  /\ \E k, l \in 0..3 :
       LET parent(n) == fnv1(4 * un.args[1] + n,
                             item_state(epoch_context, 4 * un.args[1] + n)[1])
                          % epoch_context.light_cache_num_items
       IN  parent(k) # parent(l)

(***************************************************************************)
(* SpecMix: progpow hash_mix (progpow.cpp:480-523) taken one round at a    *)
(* time on the context of epoch 0.  un.state is hash_mix's local `state`;  *)
(* un.given lists the state each round was entered with, un.left the state *)
(* each round's parameter was in when the round returned, un.ops the       *)
(* operations each round drew.                                             *)
(***************************************************************************)
MaxMixPeriod == 7    \* periods hashed are 0..MaxMixPeriod
MaxMixSeed == 3      \* seeds hashed are 0..MaxMixSeed

\* progpow.cpp:480-484: init_mix and the construction of the state.
HashMixBegin(period, seed) ==
  /\ un.fn = "hash_mix" => un.pc = "done"
  /\ un' = [fn |-> "hash_mix", args |-> <<period, seed>>, pc |-> "rounds", i |-> 0,
            mix |-> init_mix(seed), state |-> mix_rng_state(period),
            given |-> << >>, left |-> << >>, ops |-> << >>, result |-> << >>]
  /\ UNCHANGED nonUnitVars

\* progpow.cpp:486-489: one iteration of the loop.
HashMixRound ==
  /\ un.fn = "hash_mix" /\ un.pc = "rounds"
  /\ un.i < kDag_count
  /\ \E next \in {hash_mix_round(epoch_context, un.i, un.mix, un.state)} :
       un' = [un EXCEPT !.i = @ + 1,
                        !.mix = next.mix,
                        !.state = next.state,
                        !.given = Append(@, un.state),
                        !.left = Append(@, round_state(epoch_context, un.mix, un.state)),
                        !.ops = Append(@, round_operations(un.state))]
  /\ UNCHANGED nonUnitVars

\* progpow.cpp:491-522: the loop has ended, the lanes are reduced.
HashMixReduce ==
  /\ un.fn = "hash_mix" /\ un.pc = "rounds"
  /\ un.i = kDag_count
  /\ un' = [un EXCEPT !.pc = "done", !.result = reduce_mix(un.mix)]
  /\ UNCHANGED nonUnitVars

NextMix ==
  \/ \E period \in 0..MaxMixPeriod, seed \in 0..MaxMixSeed : HashMixBegin(period, seed)
  \/ HashMixRound
  \/ HashMixReduce

(***************************************************************************)
(* C18                                                                     *)
(***************************************************************************)
CursorsAtStart(state) == state.dst_counter = 0 /\ state.src_counter = 0

\* C18 as stated: every round starts with both cursors at the beginning, and
\* every round after the first starts with the generator as the round before
\* left it.
C18_StreamAdvancesAcrossRounds ==
  un.fn = "hash_mix" =>
    \A r \in 1..Len(un.given) :
      /\ CursorsAtStart(un.given[r])
      /\ r > 1 => un.given[r].rng = un.left[r - 1].rng

\* C18, amended: every round of hash_mix starts with both cursors at the
\* beginning of the same two permutations and with the generator in the state
\* the construction of mix_rng_state(period) left it in, so every round draws
\* the selectors the first round drew; what a round draws advances its own
\* copy alone, and the finished hash is the one progpow_hash_mix computes.
C18_EveryRoundStartsFromPeriodState ==
  un.fn = "hash_mix" =>
    /\ \A r \in 1..Len(un.given) :
         /\ CursorsAtStart(un.given[r])
         /\ un.given[r] = mix_rng_state(un.args[1])
         /\ un.ops[r] = un.ops[1]
    /\ un.pc = "done" =>
         un.result = progpow_hash_mix(epoch_context, un.args[1], un.args[2])

\* A finished hash whose first round left its copy of the state with the
\* generator and both cursors advanced.
C18_Witness ==
  /\ un.fn = "hash_mix" /\ un.pc = "done"
  /\ Len(un.given) = kDag_count
  /\ un.left[1].rng # un.given[1].rng
  /\ un.left[1].dst_counter > 0 /\ un.left[1].src_counter > 0

(***************************************************************************)
(* SpecSources: the source registers of a random math operation, as round  *)
(* (progpow.cpp:402-408) and getKern (progpow.cpp:314-320) derive them     *)
(* from a value of the generator.                                          *)
(***************************************************************************)
MaxRnd == 127    \* generator values are 0..MaxRnd

MathSources(rnd) ==
  /\ un' = [fn |-> "math_sources", args |-> <<rnd>>,
            result |-> math_sources(rnd), kern |-> kern_math_sources(rnd)]
  /\ UNCHANGED nonUnitVars

NextSources == \E rnd \in 0..MaxRnd : MathSources(rnd)

(***************************************************************************)
(* C19                                                                     *)
(***************************************************************************)
Regs == 0..(kRegs - 1)
SrcRnds == 0..(kRegs * (kRegs - 1) - 1)

\* C19: the two sources are different registers, both below kRegs; no other
\* reduced value r' yields the same pair and every ordered pair of different
\* registers is the pair of some r'; getKern derives the same pair.
C19_SourcesDistinctAndBijective ==
  un.fn = "math_sources" =>
    /\ un.result.src1 \in Regs
    /\ un.result.src2 \in Regs
    /\ un.result.src1 # un.result.src2
    /\ \A r \in SrcRnds :
         math_sources(r) = un.result => r = un.args[1] % (kRegs * (kRegs - 1))
    /\ \A a, b \in Regs :
         a # b => \E r \in SrcRnds : math_sources(r) = [src1 |-> a, src2 |-> b]
    /\ un.kern = un.result

\* A value above the modulus whose quotient is not below src1: src2 was
\* stepped over src1.
C19_Witness ==
  /\ un.fn = "math_sources"
  /\ un.args[1] >= kRegs * (kRegs - 1)
  /\ un.result.src2 = ((un.args[1] % (kRegs * (kRegs - 1))) \div kRegs) + 1
  /\ un.result.src2 = un.result.src1 + 1

(***************************************************************************)
(* SpecMerge: random_merge and random_math (progpow.cpp:72-142) and the    *)
(* helpers of bitwise.hpp:26-60 at the program's width.  A uint32_t is the *)
(* sequence of its 32 bits, least significant first, and a uint64_t that   *)
(* of its 64.  Sums and products of unsigned types are worked on the       *)
(* numbers' base-256 digits and lose the carry out of the top digit.       *)
(***************************************************************************)
Uint32Bits == 32    \* the width of uint32_t
MaxOperand == 2     \* operands a and b: corner values and MaxOperand others
MaxMergeSelHigh == 31    \* merge selectors: high half 0..MaxMergeSelHigh
MaxMergeSelLow == 3      \* and low half 0..MaxMergeSelLow
MaxMathSelHigh == 1      \* math selectors: high half 0 and 32768 * (1..MaxMathSelHigh)
MaxMathSelLow == 10      \* and low half 0..MaxMathSelLow

\* F(1) + ... + F(n).
Sum(n, F(_)) ==
  LET S[lo \in 1..(n + 1), hi \in 0..n] ==
        IF lo > hi THEN 0
        ELSE IF lo = hi THEN F(lo)
        ELSE S[lo, (lo + hi) \div 2] + S[((lo + hi) \div 2) + 1, hi]
  IN  S[1, n]

\* The bits of a number below 2^31, and the number a sequence of at most 30
\* bits stands for.
BitsOf(n, width) ==
  Tabulate(width, LAMBDA i : IF i > 31 THEN 0 ELSE (n \div (2 ^ (i - 1))) % 2)
BitsVal(bits) == With(bits, LAMBDA v : Sum(Len(v), LAMBDA i : v[i] * (2 ^ (i - 1))))

\* The uint32_t with 16-bit halves high and low, and its halves.
Uint32(high, low) == BitsOf(low, 16) \o BitsOf(high, 16)
LowHalf(v) == BitsVal(SubSeq(v, 1, 16))
HighHalf(v) == BitsVal(SubSeq(v, 17, 32))

\* A number's base-256 digits, least significant first, and back.
Limbs(bits) ==
  With(bits, LAMBDA v :
    Tabulate(Len(v) \div 8, LAMBDA k : BitsVal(SubSeq(v, 8 * k - 7, 8 * k))))
FromLimbs(limbs) ==
  With(limbs, LAMBDA d :
    Tabulate(8 * Len(d), LAMBDA i : (d[((i - 1) \div 8) + 1] \div (2 ^ ((i - 1) % 8))) % 2))

\* Column sums brought back to digits; the carry out of the last is dropped.
RECURSIVE Normalise(_, _, _, _)
Normalise(columns, k, carry, digits) ==
  IF k > Len(columns) THEN digits
  ELSE Normalise(columns, k + 1, (columns[k] + carry) \div 256,
                 Append(digits, (columns[k] + carry) % 256))

\* a + b and a * b of an unsigned type as wide as a.
bits_add(a, b) ==
  With(Limbs(a), LAMBDA x : With(Limbs(b), LAMBDA y :
    FromLimbs(Normalise(Tabulate(Len(x), LAMBDA k : x[k] + y[k]), 1, 0, << >>))))

bits_mul(a, b) ==
  With(Limbs(a), LAMBDA x : With(Limbs(b), LAMBDA y :
    FromLimbs(Normalise(Tabulate(Len(x), LAMBDA k : Sum(k, LAMBDA i : x[i] * y[k + 1 - i])),
                        1, 0, << >>))))

\* 2^e % m and v % m for m up to 2^15.
RECURSIVE PowMod(_, _, _)
PowMod(base, e, m) == IF e = 0 THEN 1 % m ELSE (base * PowMod(base, e - 1, m)) % m
Pow2Mod(e, m) == ((2 ^ (e % 15)) % m) * PowMod((2 ^ 15) % m, e \div 15, m) % m
bits_mod(v, m) ==
  With(v, LAMBDA x : Sum(Len(x), LAMBDA i : x[i] * Pow2Mod(i - 1, m)) % m)

\* n << s and n >> s for s below the width, and the bitwise operators.
bits_shl(n, s) == With(n, LAMBDA v : Tabulate(Len(v), LAMBDA i : IF i - s >= 1 THEN v[i - s] ELSE 0))
bits_shr(n, s) == With(n, LAMBDA v : Tabulate(Len(v), LAMBDA i : IF i + s <= Len(v) THEN v[i + s] ELSE 0))
bits_and(a, b) == With(a, LAMBDA x : With(b, LAMBDA y : Tabulate(Len(x), LAMBDA i : x[i] * y[i])))
bits_or(a, b) ==
  With(a, LAMBDA x : With(b, LAMBDA y : Tabulate(Len(x), LAMBDA i : x[i] + y[i] - x[i] * y[i])))
bits_xor(a, b) ==
  With(a, LAMBDA x : With(b, LAMBDA y : Tabulate(Len(x), LAMBDA i : (x[i] + y[i]) % 2)))

\* a < b of uint32_t.
bits_less(a, b) ==
  \/ HighHalf(a) < HighHalf(b)
  \/ HighHalf(a) = HighHalf(b) /\ LowHalf(a) < LowHalf(b)

\* bitwise.hpp:26-42: s &= mask; neg_s = (uint32_t)(-(int)s);
\* (n << s) | (n >> (neg_s & mask)), and its mirror image.
rotate_mask == Uint32Bits - 1
masked(s) == BitsVal(SubSeq(bits_and(s, BitsOf(rotate_mask, Uint32Bits)), 1, 16))
neg_masked(s) == (Uint32Bits - masked(s)) % Uint32Bits

uint32_rotl32(n, s) == bits_or(bits_shl(n, masked(s)), bits_shr(n, neg_masked(s)))
uint32_rotr32(n, s) == bits_or(bits_shr(n, masked(s)), bits_shl(n, neg_masked(s)))

\* __builtin_clz of a value that is not 0: the 0-bits above the top 1-bit.
builtin_clz(v) ==
  CHOOSE k \in 0..(Uint32Bits - 1) :
    v[Uint32Bits - k] = 1 /\ \A j \in 0..(k - 1) : v[Uint32Bits - j] = 0

\* The count with the test for 0 left out, on a build whose __builtin_clz is
\* 31 ^ bsr and leaves 0 at 31.
uint32_clz32_unguarded(v) ==
  IF v = BitsOf(0, Uint32Bits) THEN Uint32Bits - 1 ELSE builtin_clz(v)

\* bitwise.hpp:44-48: v ? __builtin_clz(v) : 32u
uint32_clz32(v) == IF v = BitsOf(0, Uint32Bits) THEN Uint32Bits ELSE builtin_clz(v)

\* bitwise.hpp:50-54.
uint32_popcnt32(v) == With(v, LAMBDA x : Sum(Len(x), LAMBDA i : x[i]))

\* bitwise.hpp:56-60: (uint32_t)(((uint64_t)x * (uint64_t)y) >> 32)
uint64_of(x) == x \o BitsOf(0, Uint32Bits)
uint32_mul_hi32(x, y) ==
  SubSeq(bits_shr(bits_mul(uint64_of(x), uint64_of(y)), Uint32Bits), 1, Uint32Bits)

\* progpow.cpp:75: x = (sel >> 16) % 31 + 1
merge_rotation(sel) == bits_mod(bits_shr(sel, 16), 31) + 1

\* progpow.cpp:72-91: the value left in a.
uint32_random_merge(a, b, sel) ==
  LET x == BitsOf(merge_rotation(sel), Uint32Bits)
      formula == bits_mod(sel, 4)
      thirty_three == BitsOf(33, Uint32Bits)
  IN  CASE formula = 0 -> bits_add(bits_mul(a, thirty_three), b)
        [] formula = 1 -> bits_mul(bits_xor(a, b), thirty_three)
        [] formula = 2 -> bits_xor(uint32_rotl32(a, x), b)
        [] formula = 3 -> bits_xor(uint32_rotr32(a, x), b)

\* progpow.cpp:114-142.
uint32_random_math(a, b, sel) ==
  LET formula == bits_mod(sel, 11)
  IN  CASE formula = 0 -> bits_add(a, b)
        [] formula = 1 -> bits_mul(a, b)
        [] formula = 2 -> uint32_mul_hi32(a, b)
        [] formula = 3 -> IF bits_less(b, a) THEN b ELSE a
        [] formula = 4 -> uint32_rotl32(a, b)
        [] formula = 5 -> uint32_rotr32(a, b)
        [] formula = 6 -> bits_and(a, b)
        [] formula = 7 -> bits_or(a, b)
        [] formula = 8 -> bits_xor(a, b)
        [] formula = 9 -> BitsOf(uint32_clz32(a) + uint32_clz32(b), Uint32Bits)
        [] formula = 10 -> BitsOf(uint32_popcnt32(a) + uint32_popcnt32(b), Uint32Bits)

\* The operands: 0, 1, 0x7FFFFFFF, 0x80000000, 0xFFFFFFFF, 0x01000193 and
\* MaxOperand further values.
Operands ==
  {Uint32(0, 0), Uint32(0, 1), Uint32(32767, 65535), Uint32(32768, 0),
   Uint32(65535, 65535), Uint32(256, 403)}
  \cup {Uint32((k * 40503) % 65536, (k * 25173 + 13849) % 65536) : k \in 1..MaxOperand}

MergeSelectors ==
  {Uint32(high, low) : high \in 0..MaxMergeSelHigh, low \in 0..MaxMergeSelLow}

MathSelectors ==
  {Uint32(high * 32768, low) : high \in 0..MaxMathSelHigh, low \in 0..MaxMathSelLow}

\* A call is made when none is in progress, and returns.
RandomMergeCall(a, b, sel) ==
  /\ un.fn = NoCall.fn
  /\ un' = [fn |-> "random_merge", args |-> <<a, b, sel>>,
            result |-> uint32_random_merge(a, b, sel)]
  /\ UNCHANGED nonUnitVars

RandomMathCall(a, b, sel) ==
  /\ un.fn = NoCall.fn
  /\ un' = [fn |-> "random_math", args |-> <<a, b, sel>>,
            result |-> uint32_random_math(a, b, sel)]
  /\ UNCHANGED nonUnitVars

RandomReturn ==
  /\ un.fn \in {"random_merge", "random_math"}
  /\ un' = NoCall
  /\ UNCHANGED nonUnitVars

NextMerge ==
  \/ \E a \in Operands, b \in Operands :
       \/ \E sel \in MergeSelectors : RandomMergeCall(a, b, sel)
       \/ \E sel \in MathSelectors : RandomMathCall(a, b, sel)
  \/ RandomReturn

(***************************************************************************)
(* C20                                                                     *)
(***************************************************************************)
\* Pairwise coprime moduli whose product exceeds 2^64: two numbers below
\* 2^64 with the same residues are the same number.
Moduli == {32749, 32719, 32717, 32713, 32707}

\* a * k + b = r + c * 2^32 for a carry count c of at most max_carry.
IsSumMod32(r, a, k, b, max_carry) ==
  \E c \in 0..max_carry : \A p \in Moduli :
    (bits_mod(a, p) * k + bits_mod(b, p)) % p
      = (bits_mod(r, p) + c * Pow2Mod(Uint32Bits, p)) % p

\* a * b = high * 2^32 + low.
IsProduct(low, high, a, b) ==
  \A p \in Moduli :
    (bits_mod(a, p) * bits_mod(b, p)) % p
      = (((bits_mod(high, p) * Pow2Mod(Uint32Bits, p)) % p) + bits_mod(low, p)) % p

\* r is a with every bit moved k places towards the top, around the end.
IsRotatedLeft(r, a, k) ==
  \A i \in 1..Uint32Bits : r[((i - 1 + k) % Uint32Bits) + 1] = a[i]

IsBitwise(r, a, b, Bit(_, _)) == \A i \in 1..Uint32Bits : r[i] = Bit(a[i], b[i])

NotAbove(a, b) ==
  a = b \/ \E i \in 1..Uint32Bits :
             a[i] < b[i] /\ \A j \in (i + 1)..Uint32Bits : a[j] = b[j]

IsNumber(r, n) == HighHalf(r) = 0 /\ LowHalf(r) = n

LeadingZeros(v) ==
  IF HighHalf(v) # 0 THEN 16 - BitLength(HighHalf(v))
  ELSE Uint32Bits - BitLength(LowHalf(v))

OneBits(v) == Cardinality({i \in 1..Uint32Bits : v[i] = 1})

MergeOracle(r, a, b, sel) ==
  LET x == (HighHalf(sel) % 31) + 1
      formula == LowHalf(sel) % 4
      zero == BitsOf(0, Uint32Bits)
  IN  /\ x \in 1..31
      /\ formula = 0 => IsSumMod32(r, a, 33, b, 33)
      /\ formula = 1 => IsSumMod32(r, bits_xor(a, b), 33, zero, 32)
      /\ formula = 2 => IsRotatedLeft(bits_xor(r, b), a, x)
      /\ formula = 3 => IsRotatedLeft(a, bits_xor(r, b), x)

MathOracle(r, a, b, sel) ==
  LET formula == ((HighHalf(sel) % 11) * (65536 % 11) + LowHalf(sel)) % 11
      zero == BitsOf(0, Uint32Bits)
  IN  /\ formula = 0 => IsSumMod32(r, a, 1, b, 1)
      /\ formula = 1 => IsProduct(r, uint32_mul_hi32(a, b), a, b)
      /\ formula = 2 => IsProduct(bits_mul(a, b), r, a, b)
      /\ formula = 3 => r \in {a, b} /\ NotAbove(r, a) /\ NotAbove(r, b)
      /\ formula = 4 => IsRotatedLeft(r, a, LowHalf(b) % 32)
      /\ formula = 5 => IsRotatedLeft(a, r, LowHalf(b) % 32)
      /\ formula = 6 => IsBitwise(r, a, b, LAMBDA p, q : p * q)
      /\ formula = 7 => IsBitwise(r, a, b, LAMBDA p, q : IF p + q > 0 THEN 1 ELSE 0)
      /\ formula = 8 => IsBitwise(r, a, b, LAMBDA p, q : IF p # q THEN 1 ELSE 0)
      /\ formula = 9 => /\ IsNumber(r, LeadingZeros(a) + LeadingZeros(b))
                        /\ LeadingZeros(zero) = 32
      /\ formula = 10 => IsNumber(r, OneBits(a) + OneBits(b))

\* C20: random_merge and random_math return the 32 bits of the selected
\* formula's value reduced mod 2^32, the merge rotating by
\* ((sel >> 16) mod 31) + 1, which lies in 1..31, the math rotating by
\* b mod 32, and the leading zeros of 0 counting as 32.
C20_MatchesWideOracle ==
  /\ un.fn = "random_merge" =>
       /\ Len(un.result) = Uint32Bits
       /\ MergeOracle(un.result, un.args[1], un.args[2], un.args[3])
       /\ merge_rotation(un.args[3]) = (HighHalf(un.args[3]) % 31) + 1
  /\ un.fn = "random_math" =>
       /\ Len(un.result) = Uint32Bits
       /\ MathOracle(un.result, un.args[1], un.args[2], un.args[3])

\* A merge a * 33 + b whose value does not fit 32 bits.
C20_Witness ==
  /\ un.fn = "random_merge"
  /\ LowHalf(un.args[3]) % 4 = 0
  /\ HighHalf(un.args[3]) % 31 = 30
  /\ ~IsSumMod32(un.result, un.args[1], 33, un.args[2], 0)
  /\ IsSumMod32(un.result, un.args[1], 33, un.args[2], 33)

(***************************************************************************)
(* SpecContext: create_epoch_context (ethash.cpp:229-267) for light and    *)
(* full contexts, and hash_mix's lazy_lookup (ethash.cpp:169-191) on the   *)
(* context built last.                                                     *)
(***************************************************************************)
MaxContextEpoch == 3    \* contexts are built for epochs 0..MaxContextEpoch
MaxLookupIndex == 5      \* items looked up have index 0..MaxLookupIndex

CreateContext(epoch_number, full) ==
  /\ epoch_context' = create_epoch_context(epoch_number, full)
  /\ un' = NoCall
  /\ UNCHANGED <<lk, hm>>
  /\ UNCHANGED <<regVars, seedVars, verifyVars, progVars>>

LazyLookup(index) ==
  /\ index < epoch_context.full_dataset_num_items
  /\ \E r \in {lazy_lookup(epoch_context, index)} :
       /\ epoch_context' = r.ctx
       /\ un' = [fn |-> "lazy_lookup", args |-> <<index>>, result |-> r.item]
  /\ UNCHANGED <<lk, hm>>
  /\ UNCHANGED <<regVars, seedVars, verifyVars, progVars>>

NextContext ==
  \/ \E epoch_number \in 0..MaxContextEpoch, full \in BOOLEAN :
       CreateContext(epoch_number, full)
  \/ \E index \in 0..MaxLookupIndex : LazyLookup(index)

(***************************************************************************)
(* C21                                                                     *)
(***************************************************************************)
\* C21: in a context as create_epoch_context built it, light or full, and
\* after any lookups, every hash1024 item of the L1 cache is
\* calculate_dataset_item_1024 of its index and a lookup below
\* l1_cache_num_items returns it; in a full context the L1 cache is the
\* start of the full dataset's storage, which holds every item of the
\* dataset, and its first l1_cache_num_items slots pass for filled.
C21_L1CacheHoldsFirstItems ==
  /\ \A index \in 0..(l1_cache_num_items - 1) :
       item_at(epoch_context.l1_cache, index)
         = calculate_dataset_item_1024(epoch_context, index)
  /\ Len(epoch_context.l1_cache)
       = IF epoch_context.full_dataset THEN epoch_context.full_dataset_num_items
         ELSE l1_cache_num_items
  /\ epoch_context.full_dataset =>
       /\ l1_cache_num_items <= epoch_context.full_dataset_num_items
       /\ \A index \in 0..(l1_cache_num_items - 1) : SlotFilled(epoch_context, index)
  /\ (un.fn = "lazy_lookup" /\ un.args[1] < l1_cache_num_items) =>
       un.result = calculate_dataset_item_1024(epoch_context, un.args[1])

\* The last item of the L1 cache was looked up in a light context of a later
\* epoch.
C21_Witness ==
  /\ un.fn = "lazy_lookup"
  /\ un.args[1] = l1_cache_num_items - 1
  /\ ~epoch_context.full_dataset
  /\ epoch_context.epoch_number > 0
  /\ un.result # ZeroHash(Words1024)

(***************************************************************************)
(* SpecCompare: is_less_or_equal (hash_types.hpp, src/unnamed/part_000:    *)
(* 187-197) on pairs of hashes that have one word set.                     *)
(***************************************************************************)
MaxCompareWord == 4    \* the word set has a value of 1..MaxCompareWord

\* The hash256 whose word32s[p - 1] is v and whose other words are 0.
OneWordHash(p, v) == Tabulate(Words256, LAMBDA i : IF i = p THEN v ELSE 0)

CompareHashes ==
  {ZeroHash(Words256)}
  \cup {OneWordHash(p, v) : p \in 1..Words256, v \in 1..MaxCompareWord}

IsLessOrEqualCall(a, b) ==
  /\ un.fn = NoCall.fn
  /\ un' = [fn |-> "is_less_or_equal", args |-> <<a, b>>,
            result |-> is_less_or_equal(a, b)]
  /\ UNCHANGED nonUnitVars

IsLessOrEqualReturn ==
  /\ un.fn = "is_less_or_equal"
  /\ un' = NoCall
  /\ UNCHANGED nonUnitVars

NextCompare ==
  \/ \E a \in CompareHashes, b \in CompareHashes : IsLessOrEqualCall(a, b)
  \/ IsLessOrEqualReturn

(***************************************************************************)
(* C22                                                                     *)
(***************************************************************************)
\* C22: is_less_or_equal(a, b) is true exactly when the 32 bytes of a, first
\* byte most significant, are a number not above that of the bytes of b; it
\* holds of equal hashes, and of a and b in one order or the other.
C22_LessOrEqualIsBigEndianOrder ==
  un.fn = "is_less_or_equal" =>
    /\ un.result = WithinBoundary(un.args[1], un.args[2])
    /\ un.args[1] = un.args[2] => un.result
    /\ un.result \/ is_less_or_equal(un.args[2], un.args[1])

\* Two hashes that differ in one word, the first with the larger word in
\* host order, and yet the smaller number.
C22_Witness ==
  /\ un.fn = "is_less_or_equal"
  /\ un.result
  /\ \E i \in 1..Words256 :
       /\ un.args[1][i] > un.args[2][i]
       /\ un.args[2][i] > 0
       /\ \A j \in 1..Words256 : j # i => un.args[1][j] = un.args[2][j]

(***************************************************************************)
(* SpecSponge: the sponge of keccak.cpp (src/unnamed/part_001:544-594),    *)
(* step by step as the code takes it, on words of word64_size bytes.  The  *)
(* permutation is a stand-in that mixes every word of the state with its   *)
(* neighbour and its position; the model records each state handed to it.  *)
(***************************************************************************)
word64_size == 2        \* sizeof(uint64_t), narrowed: bytes of a state word
MaxInputSize == 60      \* inputs hashed have 0..MaxInputSize bytes
MaxInputPattern == 1    \* inputs hashed are patterns 0..MaxInputPattern
StateWords == 25
SpongeByteModulus == 256
SpongeWordModulus == SpongeByteModulus ^ word64_size
\* 1600 in the code: the width of the state in bits.
StateBits == StateWords * word64_size * 8
\* 0x8000000000000000: the top bit of a state word.
TopBit == SpongeWordModulus \div 2

\* memcpy of bytes into a zeroed word of a little-endian host: the first
\* byte is the least significant.
RECURSIVE memcpy_word(_)
memcpy_word(bytes) ==
  IF Len(bytes) = 0 THEN 0
  ELSE bytes[1] + SpongeByteModulus * memcpy_word(Tail(bytes))

\* le::uint64 of a little-endian host (part_000:137-148) returns its argument.
le_uint64(x) == x

\* part_001:15-25
load_le(data) == le_uint64(memcpy_word(Slice(data, 1, word64_size)))

\* *(p + offset) = v for a byte pointer p into the word.
store_byte(word, offset, v) ==
  LET weight == SpongeByteModulus ^ offset
      old == (word \div weight) % SpongeByteModulus
  IN  word - old * weight + v * weight

\* Stand-in for keccakf1600_best.
keccakf1600_best(state) ==
  With(state, LAMBDA s :
    Tabulate(StateWords, LAMBDA i :
      (5 * s[i] + 3 * s[(i % StateWords) + 1] + 7 * i + 1) % SpongeWordModulus))

\* part_001:564-568: state[i] ^= load_le(..) for the words of one block.
xor_block(state, input_view, block_word64s) ==
  With(state, LAMBDA s :
    Tabulate(StateWords, LAMBDA i :
      IF i <= block_word64s
      THEN XOR(s[i], load_le(Slice(input_view, (i - 1) * word64_size + 1, word64_size)))
      ELSE s[i]))

remove_prefix(input_view, n) == SubSeq(input_view, n + 1, Len(input_view))

\* part_001:560-582: the loop, to the state it leaves behind.  permuted is
\* the sequence of states handed to the permutation so far.
RECURSIVE absorb(_, _, _, _, _)
absorb(state, state_iterator, input_view, permuted, block_size) ==
  IF Len(input_view) = 0
  THEN [state |-> state, state_iterator |-> state_iterator,
        last_word |-> 0, last_word_iter |-> 0, permuted |-> permuted]
  ELSE IF Len(input_view) >= block_size
  THEN With(xor_block(state, input_view, block_size \div word64_size), LAMBDA x :
         absorb(keccakf1600_best(x), state_iterator,
                remove_prefix(input_view, block_size), Append(permuted, x), block_size))
  ELSE IF Len(input_view) >= word64_size
  THEN With(set_item(state, state_iterator,
                     XOR(item_at(state, state_iterator), load_le(input_view))), LAMBDA x :
         absorb(x, state_iterator + 1, remove_prefix(input_view, word64_size),
                permuted, block_size))
  ELSE [state |-> state, state_iterator |-> state_iterator,
        last_word |-> memcpy_word(input_view), last_word_iter |-> Len(input_view),
        permuted |-> permuted]

\* part_001:584-586 with the padding byte stored at the start of last_word.
finalize_pad_at_word_start(a, block_word64s) ==
  With(store_byte(a.last_word, 0, 1), LAMBDA last_word :
    With(set_item(a.state, a.state_iterator,
                  XOR(item_at(a.state, a.state_iterator), le_uint64(last_word))), LAMBDA s :
      set_item(s, block_word64s - 1, XOR(item_at(s, block_word64s - 1), TopBit))))

\* part_001:584-586: the padding.
finalize(a, block_word64s) ==
  With(store_byte(a.last_word, a.last_word_iter, 1), LAMBDA last_word :
    With(set_item(a.state, a.state_iterator,
                  XOR(item_at(a.state, a.state_iterator), le_uint64(last_word))), LAMBDA s :
      set_item(s, block_word64s - 1, XOR(item_at(s, block_word64s - 1), TopBit))))

\* part_001:544-594.  out is the hash; permuted, the states permuted.
keccak_sponge(bits, input) ==
  LET hash_size == bits \div 8
      block_size == (StateBits - bits * 2) \div 8
      block_word64s == block_size \div word64_size
  IN  With(absorb(ZeroHash(StateWords), 0, input, << >>, block_size), LAMBDA a :
        With(finalize(a, block_word64s), LAMBDA padded :
          With(keccakf1600_best(padded), LAMBDA state :
            [out |-> Tabulate(hash_size \div word64_size, LAMBDA i : le_uint64(state[i])),
             permuted |-> Append(a.permuted, padded)])))

\* The inputs hashed: bytes that run through 0x00..0xff, 0x01 and 0x80 among them.
SpongeInput(n, pattern) ==
  Tabulate(n, LAMBDA k : (127 * k + 129 * pattern) % SpongeByteModulus)

\* keccak256 and keccak512 ask for 4 and 8 words of hash.
SpongeHashWords == {4, 8}

KeccakCall(hash_words, n, pattern) ==
  /\ un.fn = NoCall.fn
  /\ un' = [fn |-> "keccak",
            args |-> <<hash_words * word64_size * 8, SpongeInput(n, pattern)>>,
            result |-> keccak_sponge(hash_words * word64_size * 8, SpongeInput(n, pattern))]
  /\ UNCHANGED nonUnitVars

KeccakReturn ==
  /\ un.fn = "keccak"
  /\ un' = NoCall
  /\ UNCHANGED nonUnitVars

NextSponge ==
  \/ \E hash_words \in SpongeHashWords, n \in 0..MaxInputSize, pattern \in 0..MaxInputPattern :
       KeccakCall(hash_words, n, pattern)
  \/ KeccakReturn

(***************************************************************************)
(* C23                                                                     *)
(***************************************************************************)
\* The rate in bytes of a sponge that gives bits bits of hash.
Rate(bits) == (StateBits - 2 * bits) \div 8

\* The bytes the sponge absorbs for an input: the input, one byte 0x01 and
\* zeros up to a whole number of blocks, 0x80 added to the last byte.
PaddedInput(input, r) ==
  LET n == Len(input)
      total == ((n \div r) + 1) * r
  IN  Tabulate(total, LAMBDA k :
        (IF k <= n THEN input[k] ELSE IF k = n + 1 THEN 1 ELSE 0)
        + (IF k = total THEN 128 ELSE 0))

\* Byte k (from 0) of a state, its words least significant byte first.
StateByte(state, k) ==
  (state[(k \div word64_size) + 1] \div (SpongeByteModulus ^ (k % word64_size)))
    % SpongeByteModulus

\* state with the r bytes of block xored into its first r bytes.
XorBytes(state, block, r) ==
  Tabulate(StateWords, LAMBDA i :
    LET B[j \in 0..word64_size] ==
          IF j = word64_size THEN 0
          ELSE LET k == (i - 1) * word64_size + j
               IN  XOR(StateByte(state, k), IF k < r THEN block[k + 1] ELSE 0)
                   + SpongeByteModulus * B[j + 1]
    IN  B[0])

\* The states permuted when the blocks of padded are absorbed one by one.
RECURSIVE AbsorbedBlocks(_, _, _)
AbsorbedBlocks(state, padded, r) ==
  IF Len(padded) = 0 THEN << >>
  ELSE With(XorBytes(state, Slice(padded, 1, r), r), LAMBDA x :
         <<x>> \o AbsorbedBlocks(keccakf1600_best(x), remove_prefix(padded, r), r))

\* C23: keccak of n bytes at rate r permutes floor(n / r) + 1 states: after
\* each whole block of input xored in, and once more after the remaining
\* n mod r bytes, a byte 0x01 at offset n mod r and the top bit of the last
\* word of the rate are xored in, also when n is 0 or a multiple of r.
C23_SpongeAbsorbsPaddedBlocks ==
  un.fn = "keccak" =>
    LET r == Rate(un.args[1])
        n == Len(un.args[2])
    IN  /\ Len(un.result.permuted) = (n \div r) + 1
        /\ un.result.permuted
             = AbsorbedBlocks(ZeroHash(StateWords), PaddedInput(un.args[2], r), r)

\* An input of whole blocks, at least one: the padding is a block of its own.
C23_Witness ==
  /\ un.fn = "keccak"
  /\ Len(un.args[2]) > 0
  /\ Len(un.args[2]) % Rate(un.args[1]) = 0
  /\ Len(un.result.permuted) = (Len(un.args[2]) \div Rate(un.args[1])) + 1

(***************************************************************************)
(* SpecSchedule: the registers one round draws from its copy of the        *)
(* mix_rng_state (progpow.cpp round, src/libcrypto/keccak.hpp:369-441),    *)
(* with the register and operation counts of the program                   *)
(* (progpow.hpp, src/unnamed/part_000:20-25) rather than the narrowed      *)
(* ones.  The generator keeps the narrowed word.                           *)
(***************************************************************************)
PROGPOW_REGS == 32         \* kRegs
PROGPOW_CNT_CACHE == 11    \* kCache_count
PROGPOW_CNT_MATH == 18     \* kMath_count
MaxScheduleSeed == 127     \* program seeds are 0..MaxScheduleSeed

\* progpow.cpp:65-69: the swaps of the loop for i = kRegs down to upto, the
\* later ones applied to the result of the earlier ones.
RECURSIVE program_shuffle(_, _)
program_shuffle(initial, upto) ==
  IF upto > PROGPOW_REGS THEN initial
  ELSE With(program_shuffle(initial, upto + 1), LAMBDA prev :
         With(kiss99_next(prev.rng), LAMBDA a :
           With(kiss99_next(a.rng), LAMBDA b :
             [rng |-> b.rng, dst_counter |-> 0, src_counter |-> 0,
              dst_seq |-> Swap(prev.dst_seq, upto - 1, a.value % upto),
              src_seq |-> Swap(prev.src_seq, upto - 1, b.value % upto)])))

\* progpow.cpp:45-70 for kRegs = PROGPOW_REGS.
program_mix_rng_state(seed) ==
  LET seed_lo == Wrap(seed)
      seed_hi == Wrap(seed \div WordModulus)
      z == fnv1a(kFNV_OFFSET_BASIS, seed_lo)
      w == fnv1a(z, seed_hi)
      jsr == fnv1a(w, seed_lo)
      jcong == fnv1a(jsr, seed_hi)
      identity == Tabulate(PROGPOW_REGS, LAMBDA i : i - 1)
  IN  program_shuffle([rng |-> kiss99(z, w, jsr, jcong), dst_counter |-> 0,
                       src_counter |-> 0, dst_seq |-> identity, src_seq |-> identity], 2)

\* progpow.hpp:45-46 for kRegs = PROGPOW_REGS.
program_next_dst(state) ==
  [value |-> state.dst_seq[(state.dst_counter % PROGPOW_REGS) + 1],
   state |-> [state EXCEPT !.dst_counter = @ + 1]]

program_next_src(state) ==
  [value |-> state.src_seq[(state.src_counter % PROGPOW_REGS) + 1],
   state |-> [state EXCEPT !.src_counter = @ + 1]]

\* progpow.cpp:384-398: the draws of one cache access, source first.
cache_draws(state) ==
  With(program_next_src(state), LAMBDA src :
    With(program_next_dst(src.state), LAMBDA dst :
      With(rng_next(dst.state), LAMBDA sel :
        [merge |-> [op |-> "cache", src |-> src.value, dst |-> dst.value],
         state |-> sel.state])))

\* progpow.cpp:399-419: the draws of one random math operation.
math_draws(state) ==
  With(rng_next(state), LAMBDA src_rnd :
    With(rng_next(src_rnd.state), LAMBDA sel1 :
      With(program_next_dst(sel1.state), LAMBDA dst :
        With(rng_next(dst.state), LAMBDA sel2 :
          [merge |-> [op |-> "math", src |-> PROGPOW_REGS, dst |-> dst.value],
           state |-> sel2.state]))))

program_max_operations ==
  IF PROGPOW_CNT_CACHE > PROGPOW_CNT_MATH THEN PROGPOW_CNT_CACHE ELSE PROGPOW_CNT_MATH

\* progpow.cpp:382-420: the first n passes of the loop over i, from state;
\* merges is the sequence of merges made.
RECURSIVE lane_draws(_, _)
lane_draws(state, n) ==
  IF n = 0 THEN [merges |-> << >>, state |-> state]
  ELSE With(lane_draws(state, n - 1), LAMBDA prev :
         With(IF n - 1 < PROGPOW_CNT_CACHE
              THEN With(cache_draws(prev.state), LAMBDA c :
                     [merges |-> Append(prev.merges, c.merge), state |-> c.state])
              ELSE prev, LAMBDA cached :
           IF n - 1 < PROGPOW_CNT_MATH
           THEN With(math_draws(cached.state), LAMBDA c :
                  [merges |-> Append(cached.merges, c.merge), state |-> c.state])
           ELSE cached))

\* progpow.cpp:423-429 with a destination drawn for the first word as well.
RECURSIVE dag_draws_all_drawn(_, _, _)
dag_draws_all_drawn(state, merges, i) ==
  IF i = kWords_per_lane THEN [merges |-> merges, state |-> state]
  ELSE With(program_next_dst(state), LAMBDA dst :
         With(rng_next(dst.state), LAMBDA sel :
           dag_draws_all_drawn(sel.state,
                     Append(merges, [op |-> "dag", src |-> PROGPOW_REGS, dst |-> dst.value]),
                     i + 1)))

\* progpow.cpp:423-429: dsts[i] = (i == 0 ? 0 : state.next_dst()).
RECURSIVE dag_draws(_, _, _)
dag_draws(state, merges, i) ==
  IF i = kWords_per_lane THEN [merges |-> merges, state |-> state]
  ELSE With(IF i = 0 THEN [value |-> 0, state |-> state] ELSE program_next_dst(state),
            LAMBDA dst :
         With(rng_next(dst.state), LAMBDA sel :
           dag_draws(sel.state,
                     Append(merges, [op |-> IF i = 0 THEN "dag0" ELSE "dag",
                                     src |-> PROGPOW_REGS, dst |-> dst.value]),
                     i + 1)))

\* progpow.cpp:369-441: the merges of one round in the order of the code,
\* and the state its copy is left in.
round_draws(state) ==
  With(state, LAMBDA copy :
    With(lane_draws(copy, program_max_operations), LAMBDA lanes :
      dag_draws(lanes.state, lanes.merges, 0)))

RoundDrawsCall(seed) ==
  /\ un.fn = NoCall.fn
  /\ un' = [fn |-> "round_draws", args |-> <<seed>>,
            result |-> round_draws(program_mix_rng_state(seed))]
  /\ UNCHANGED nonUnitVars

RoundDrawsReturn ==
  /\ un.fn = "round_draws"
  /\ un' = NoCall
  /\ UNCHANGED nonUnitVars

NextSchedule ==
  \/ \E seed \in 0..MaxScheduleSeed : RoundDrawsCall(seed)
  \/ RoundDrawsReturn

(***************************************************************************)
(* C24                                                                     *)
(***************************************************************************)
\* The positions of the merges of one kind.
MergesOf(merges, ops) == {k \in 1..Len(merges) : merges[k].op \in ops}

\* C24: the copy of the state a round starts with has both cursors at 0 and
\* the round draws 32 destinations from it (11 for cache loads, 18 for
\* random math, 3 for DAG words) and 11 sources; every register 0..31 is
\* the drawn destination of exactly one merge, the 11 cache sources differ
\* from one another, and the first DAG word goes to register 0 undrawn.
C24_EveryRegisterDrawnOnce ==
  un.fn = "round_draws" =>
    LET merges == un.result.merges
        drawn == MergesOf(merges, {"cache", "math", "dag"})
        cache == MergesOf(merges, {"cache"})
    IN  /\ program_mix_rng_state(un.args[1]).dst_counter = 0
        /\ program_mix_rng_state(un.args[1]).src_counter = 0
        /\ un.result.state.dst_counter = 32
        /\ un.result.state.src_counter = 11
        /\ Cardinality(cache) = 11
        /\ Cardinality(MergesOf(merges, {"math"})) = 18
        /\ Cardinality(MergesOf(merges, {"dag"})) = 3
        /\ Cardinality(drawn) = 32
        /\ \A reg \in 0..31 : Cardinality({k \in drawn : merges[k].dst = reg}) = 1
        /\ \A j \in cache, k \in cache : j # k => merges[j].src # merges[k].src
        /\ \A k \in cache : merges[k].src \in 0..31
        /\ Cardinality(MergesOf(merges, {"dag0"})) = 1
        /\ \A k \in MergesOf(merges, {"dag0"}) : merges[k].dst = 0

\* A round whose register 0 is written twice by DAG words: by the first,
\* undrawn, and by a later one that drew it.
C24_Witness ==
  /\ un.fn = "round_draws"
  /\ Len(un.result.merges) = 33
  /\ \E k \in MergesOf(un.result.merges, {"dag"}) : un.result.merges[k].dst = 0

(***************************************************************************)
(* SpecIndexes: the indexes one round computes (progpow.cpp round,         *)
(* src/libcrypto/keccak.hpp:369-441) from a mix whose registers hold       *)
(* numbers beyond every size indexed.                                      *)
(***************************************************************************)
MaxNumItems == 15      \* full_dataset_num_items is odd, 3..MaxNumItems
MaxRound == 63         \* rounds are 0..MaxRound
MaxIndexWord == 12     \* mixes are built from the words 0..MaxIndexWord

\* A mix whose registers differ from lane to lane and go far beyond the
\* number of items and the words of the L1 cache.
IndexMix(word) ==
  Tabulate(kLanes, LAMBDA l :
    Tabulate(kRegs, LAMBDA i : 47 * word + 3 * l + 5 * i))

NumItems == {n \in 3..MaxNumItems : n % 2 = 1}

\* progpow.cpp:373-380, 395, 434-437: the indexes of the two hash1024 looked
\* up, the l1_cache offsets of every lane for every source register, and the
\* offsets into the item of every lane's words.
round_indexes(full_dataset_num_items, r, mix) ==
  LET item_index == round_item_index(full_dataset_num_items, r, mix)
      item1024_index == item_index * 2
  IN  [item1024 |-> <<item1024_index, item1024_index + 1>>,
       cache |-> Tabulate(kLanes, LAMBDA l :
                   Tabulate(kRegs, LAMBDA src : cache_offset(mix, l - 1, src - 1))),
       dag |-> Tabulate(kLanes, LAMBDA l :
                 Tabulate(kWords_per_lane, LAMBDA i : dag_offset(l - 1, r) + (i - 1)))]

RoundIndexesCall(full_dataset_num_items, r, word) ==
  /\ un.fn = NoCall.fn
  /\ un' = [fn |-> "round_indexes",
            args |-> <<full_dataset_num_items, r, IndexMix(word)>>,
            result |-> round_indexes(full_dataset_num_items, r, IndexMix(word))]
  /\ UNCHANGED nonUnitVars

RoundIndexesReturn ==
  /\ un.fn = "round_indexes"
  /\ un' = NoCall
  /\ UNCHANGED nonUnitVars

NextIndexes ==
  \/ \E n \in NumItems, r \in 0..MaxRound, word \in 0..MaxIndexWord :
       RoundIndexesCall(n, r, word)
  \/ RoundIndexesReturn

(***************************************************************************)
(* C25                                                                     *)
(***************************************************************************)
\* C25: whatever the mix holds and for every odd full_dataset_num_items of 3
\* or more, the two hash1024 indexes of a round are below
\* full_dataset_num_items, every l1_cache offset is below the words of the
\* L1 cache, and every offset into the 2048-bit item is below its 64 words.
C25_IndexesInRange ==
  un.fn = "round_indexes" =>
    /\ \A k \in 1..2 : un.result.item1024[k] \in 0..(un.args[1] - 1)
    /\ un.result.item1024[2] = un.result.item1024[1] + 1
    /\ un.result.item1024[1] % 2 = 0
    /\ \A l \in 1..kLanes : \A src \in 1..kRegs :
         un.result.cache[l][src] \in 0..(l1_cache_num_items * Words1024 - 1)
    /\ \A l \in 1..kLanes : \A i \in 1..kWords_per_lane :
         un.result.dag[l][i] \in 0..63

\* A round whose index register is beyond the number of items and one of
\* whose source registers is beyond the L1 cache.
C25_Witness ==
  /\ un.fn = "round_indexes"
  /\ reg_at(un.args[3], un.args[2] % kLanes, 0) >= un.args[1]
  /\ un.result.item1024[2] = un.args[1] - 2
  /\ \E l \in 0..(kLanes - 1), src \in 0..(kRegs - 1) :
       reg_at(un.args[3], l, src) >= l1_cache_num_items * Words1024

(***************************************************************************)
(* C26                                                                     *)
(***************************************************************************)
\* C26: in every round r of 0..63 the lanes' offsets into the item are those
\* of the 16 lanes (l XOR r) mod 16, each lane once, so that every one of the
\* 64 words of the item is merged into exactly one lane.
C26_LanesPartitionItem ==
  (un.fn = "round_indexes" /\ un.args[2] \in 0..63) =>
    /\ \A a \in 0..15 :
         Cardinality({l \in 1..kLanes : un.result.dag[l][1] = a * kWords_per_lane}) = 1
    /\ \A word \in 0..63 :
         Cardinality({l \in 1..kLanes : \E i \in 1..kWords_per_lane :
                        un.result.dag[l][i] = word}) = 1

\* A round beyond the first 16, in which no lane reads its own slice.
C26_Witness ==
  /\ un.fn = "round_indexes"
  /\ un.args[2] >= kLanes
  /\ \A l \in 1..kLanes : un.result.dag[l][1] # (l - 1) * kWords_per_lane

(***************************************************************************)
(* SpecEthashVerify: ethash verify_light and verify_full (ethash.cpp:      *)
(* 416-439) on full contexts, with the mix hash of the header and nonce    *)
(* and with other mix hashes.                                              *)
(***************************************************************************)
\* ethash.cpp:416-422
ethash_verify_light(header_hash, mix_hash, nonce, boundary) ==
  With(ethash_hash_seed(header_hash, nonce), LAMBDA hash_seed :
    is_less_or_equal(ethash_hash_final(hash_seed, mix_hash), boundary))

\* verify_full without the comparison of the mix hashes.
ethash_verify_full_any_mix(context, header_hash, mix_hash, nonce, boundary) ==
  With(ethash_hash_seed(header_hash, nonce), LAMBDA hash_seed :
    IF ~is_less_or_equal(ethash_hash_final(hash_seed, mix_hash), boundary)
    THEN [result |-> "kInvalidNonce", ctx |-> context]
    ELSE With(ethash_hash_mix(context, hash_seed), LAMBDA mixed :
           [result |-> "kOk", ctx |-> mixed.ctx]))

\* ethash.cpp:424-439: the result, and the context as hash_mix's lookups
\* leave it.
ethash_verify_full(context, header_hash, mix_hash, nonce, boundary) ==
  With(ethash_hash_seed(header_hash, nonce), LAMBDA hash_seed :
    IF ~is_less_or_equal(ethash_hash_final(hash_seed, mix_hash), boundary)
    THEN [result |-> "kInvalidNonce", ctx |-> context]
    ELSE With(ethash_hash_mix(context, hash_seed), LAMBDA mixed :
           [result |-> IF ~is_equal(mix_hash, mixed.mix_hash)
                       THEN "kInvalidMixHash" ELSE "kOk",
            ctx |-> mixed.ctx]))

\* The mix hashes supplied: that of the header and nonce, the zero hash and
\* the header hash itself.
SuppliedMixes(context, header_hash, nonce) ==
  {ethash_hash(context, header_hash, nonce).mix_hash, ZeroHash(Words256), header_hash}

\* The boundaries: those of the verification part, and the final hash of
\* the header and nonce itself.
EthashBoundaries(context, header_hash, nonce) ==
  Boundaries \cup {ethash_hash(context, header_hash, nonce).final_hash}

EthashVerifyFull(header_hash, mix_hash, nonce, boundary) ==
  /\ un.fn = NoCall.fn
  /\ \E r \in {ethash_verify_full(epoch_context, header_hash, mix_hash, nonce, boundary)} :
       /\ epoch_context' = r.ctx
       /\ un' = [fn |-> "verify_full",
                 args |-> <<header_hash, mix_hash, nonce, boundary>>,
                 result |-> r.result, context |-> epoch_context]
  /\ UNCHANGED <<lk, hm>>
  /\ UNCHANGED <<regVars, seedVars, verifyVars, progVars>>

EthashVerifyReturn ==
  /\ un.fn = "verify_full"
  /\ un' = NoCall
  /\ UNCHANGED nonUnitVars

NextEthashVerify ==
  \/ \E epoch_number \in Epochs : CreateEpochContext(epoch_number)
  \/ \E header_hash \in VerifyHeaders, nonce \in VerifyNonces :
       \E mix_hash \in SuppliedMixes(epoch_context, header_hash, nonce),
          boundary \in EthashBoundaries(epoch_context, header_hash, nonce) :
         EthashVerifyFull(header_hash, mix_hash, nonce, boundary)
  \/ EthashVerifyReturn

(***************************************************************************)
(* C28                                                                     *)
(***************************************************************************)
\* C28: verify_full answers kOk exactly when the hash of the header and
\* nonce has the mix hash supplied and a final hash within the boundary,
\* though it tests the boundary on a final hash made from the mix hash
\* supplied; and when it answers kOk, verify_light holds of the same
\* arguments.
C28_OkIsHashWithinBoundary ==
  un.fn = "verify_full" =>
    LET hashed == ethash_hash(un.context, un.args[1], un.args[3])
    IN  /\ un.result = "kOk"
             <=> (/\ is_equal(hashed.mix_hash, un.args[2])
                  /\ is_less_or_equal(hashed.final_hash, un.args[4]))
        /\ un.result = "kOk"
             => ethash_verify_light(un.args[1], un.args[2], un.args[3], un.args[4])

\* kOk at a boundary some hashes are beyond.
C28_Witness ==
  /\ un.fn = "verify_full"
  /\ un.result = "kOk"
  /\ \E i \in 1..Words256 : un.args[4][i] # WordModulus - 1

(***************************************************************************)
(* SpecSubmit: SimulateClient::submitSolution (src/libpoolprotocols/       *)
(* testing/SimulateClient.cpp:281-314; lines 111-182 are the same function *)
(* with progpow::verify_full written out).  The epoch context is the light *)
(* one of the block's epoch.                                               *)
(***************************************************************************)
MaxSubmitBlock == 1    \* solutions are for blocks 0..MaxSubmitBlock

VerificationResults == {"kOk", "kInvalidNonce", "kInvalidMixHash"}

\* The algorithms a work package names: the two the function tests for, and
\* one it does not.
Algos == {"ethash", "progpow", "kawpow"}

\* ethash.cpp:440-446 and progpow.cpp:564-571: the context of the block.
SubmitContext(block) == create_epoch_context(calculate_epoch_from_block_num(block), FALSE)

\* Lines 286-298: the values result can hold at line 300.  It is declared
\* without an initialiser and assigned in the two branches only: otherwise
\* its value is indeterminate.
submit_result(solution) ==
  IF solution.algo = "ethash"
  THEN {ethash_verify_full(SubmitContext(solution.block), solution.header,
                           solution.mixHash, solution.nonce, solution.boundary).result}
  ELSE IF solution.algo = "progpow"
  THEN {progpow_verify_full(progpow_hash(SubmitContext(solution.block),
                                         progpow_period(solution.block),
                                         solution.header, solution.nonce),
                            solution.mixHash, solution.boundary)}
  ELSE VerificationResults \cup {"indeterminate"}

\* The mix hashes submitted: those the two algorithms yield, and the zero hash.
SubmittedMixes(block, header, nonce) ==
  { ethash_hash(SubmitContext(block), header, nonce).mix_hash,
    progpow_hash(SubmitContext(block), progpow_period(block), header, nonce).mix_hash,
    ZeroHash(Words256) }

Solutions ==
  UNION { { [algo |-> algo, block |-> block, header |-> header, nonce |-> nonce,
             mixHash |-> mix, boundary |-> boundary] :
              algo \in Algos, mix \in SubmittedMixes(block, header, nonce),
              boundary \in Boundaries } :
          block \in 0..MaxSubmitBlock, header \in VerifyHeaders, nonce \in VerifyNonces }

\* Lines 281-314.  onSolutionAccepted and onSolutionRejected tell whether
\* the callbacks are set.
SubmitSolution(solution, onSolutionAccepted, onSolutionRejected) ==
  /\ un.fn = NoCall.fn
  /\ \E result \in submit_result(solution) :
       LET accepted == result = "kOk"
       IN  un' = [fn |-> "submitSolution",
                  args |-> <<solution, onSolutionAccepted, onSolutionRejected>>,
                  result |-> result,
                  solution_arrived |-> TRUE,
                  accepted_invoked |-> accepted /\ onSolutionAccepted,
                  rejected_invoked |-> ~accepted /\ onSolutionRejected]
  /\ UNCHANGED nonUnitVars

SubmitSolutionReturn ==
  /\ un.fn = "submitSolution"
  /\ un' = NoCall
  /\ UNCHANGED nonUnitVars

NextSubmit ==
  \/ \E solution \in Solutions, onSolutionAccepted \in BOOLEAN, onSolutionRejected \in BOOLEAN :
       SubmitSolution(solution, onSolutionAccepted, onSolutionRejected)
  \/ SubmitSolutionReturn

(***************************************************************************)
(* C29                                                                     *)
(***************************************************************************)
\* The verification results computed for a solution: that of its algorithm.
ComputedFor(solution) ==
  LET context == SubmitContext(solution.block)
  IN  ( IF solution.algo = "ethash"
        THEN {ethash_verify_full(context, solution.header, solution.mixHash,
                                 solution.nonce, solution.boundary).result}
        ELSE {} )
      \cup
      ( IF solution.algo = "progpow"
        THEN {progpow_verify_full(progpow_hash(context, progpow_period(solution.block),
                                               solution.header, solution.nonce),
                                  solution.mixHash, solution.boundary)}
        ELSE {} )

\* C29: whatever algorithm the solution's work names, the result compared
\* with kOk is a verification result computed for the solution; of the
\* callbacks that are set, the accepted one is invoked exactly when the
\* result is kOk and the rejected one exactly when it is not.
C29_DecisionFromComputedResult ==
  un.fn = "submitSolution" =>
    /\ un.result \in ComputedFor(un.args[1])
    /\ un.accepted_invoked <=> (un.args[2] /\ un.result = "kOk")
    /\ un.rejected_invoked <=> (un.args[3] /\ un.result # "kOk")
    /\ ~(un.accepted_invoked /\ un.rejected_invoked)

(***************************************************************************)
(* SpecCompact: shiftLeft and from_compact (hash_types.hpp,                *)
(* src/unnamed/part_000:214-281) at the program's width.  A hash256 is its *)
(* four word64s as a little-endian host reads them, a word being the       *)
(* sequence of its 64 bits, least significant first.                       *)
(***************************************************************************)
Uint64Bits == 64          \* bits_of_element
MaxShift == 255           \* shiftLeft is called with 0..MaxShift
MaxShiftPattern == 1      \* on the hashes of patterns 0..MaxShiftPattern
MaxCompactSize == 36      \* from_compact: size bytes 0..MaxCompactSize

Zero64 == Tabulate(Uint64Bits, LAMBDA k : 0)

\* x << s and x >> s for s below the width, x | y.
bits64_shl(x, s) == Tabulate(Uint64Bits, LAMBDA k : IF k > s THEN x[k - s] ELSE 0)
bits64_shr(x, s) == Tabulate(Uint64Bits, LAMBDA k : IF k + s <= Uint64Bits THEN x[k + s] ELSE 0)
bits64_or(x, y) == Tabulate(Uint64Bits, LAMBDA k : IF x[k] = 1 \/ y[k] = 1 THEN 1 ELSE 0)

\* bswap64 and bswap32: the bytes of the word in reverse order.
bits_bswap(x) ==
  Tabulate(Len(x), LAMBDA k :
    x[8 * ((Len(x) \div 8) - 1 - ((k - 1) \div 8)) + ((k - 1) % 8) + 1])

\* be::uint64 and be::uint32 of a little-endian host (part_000:118-135).
bits_be(x) == bits_bswap(x)

\* The builds: a shift of a uint64_t by 64 is undefined; a build either
\* shifts every bit out or takes the count modulo 64.
Builds == {"shifted_out", "count_masked"}

\* tmp.word64s[i] >> (bits_of_element - bitsToShift), line 238.
wide_shr(x, s, build) ==
  IF s < Uint64Bits THEN bits64_shr(x, s)
  ELSE IF build = "shifted_out" THEN Zero64
  ELSE bits64_shr(x, s % Uint64Bits)

\* part_000:234-245: the loop, from i down.
RECURSIVE shift_loop(_, _, _, _, _, _)
shift_loop(hash, tmp, i, elements_to_jump_over, bitsToShift, build) ==
  IF i - elements_to_jump_over < 0 THEN hash
  ELSE With(IF i - elements_to_jump_over - 1 >= 0
            THEN set_item(hash, i - elements_to_jump_over - 1,
                          bits_be(wide_shr(item_at(tmp, i), Uint64Bits - bitsToShift, build)))
            ELSE hash, LAMBDA high :
         With(set_item(high, i - elements_to_jump_over,
                       bits64_or(item_at(high, i - elements_to_jump_over),
                                 bits_be(bits64_shl(item_at(tmp, i), bitsToShift)))),
              LAMBDA low :
           shift_loop(low, tmp, i - 1, elements_to_jump_over, bitsToShift, build)))

\* part_000:214-248: the hash left.
shiftLeft(hash, bitsToShift, build) ==
  IF bitsToShift = 0 THEN hash
  ELSE With(Tabulate(Hash256Word64s, LAMBDA i : bits_be(hash[i])), LAMBDA tmp :
         shift_loop(Tabulate(Hash256Word64s, LAMBDA i : Zero64), tmp,
                    Hash256Word64s - 1, bitsToShift \div Uint64Bits,
                    bitsToShift % Uint64Bits, build))

\* res.word32s[7] = be::uint32(nWord) in a zero hash: the upper half of the
\* last word64.
compact_word(nWord) ==
  Tabulate(Hash256Word64s, LAMBDA i :
    IF i = Hash256Word64s
    THEN BitsOf(0, 32) \o bits_be(BitsOf(nWord, 32))
    ELSE Zero64)

\* part_000:250-281, for an nbits below 2^31.
from_compact(nbits, build) ==
  LET nSize == nbits \div (2 ^ 24)
      nWord == nbits % (2 ^ 23)
      negative_bit == (nbits \div (2 ^ 23)) % 2
      shifted == IF nSize <= 3 THEN nWord \div (2 ^ (8 * (3 - nSize))) ELSE nWord
  IN  [res |-> IF nSize <= 3 THEN compact_word(shifted)
               ELSE shiftLeft(compact_word(nWord), 8 * (nSize - 3), build),
       fNegative |-> shifted # 0 /\ negative_bit # 0,
       fOverflow |-> shifted # 0 /\ (\/ nSize > 34
                                     \/ (shifted > 255 /\ nSize > 33)
                                     \/ (shifted > 65535 /\ nSize > 32))]

\* Hashes all of whose words have set and clear bits.
ShiftHash(pattern) ==
  Tabulate(Hash256Word64s, LAMBDA i :
    Tabulate(Uint64Bits, LAMBDA k :
      IF ((k * k + 3 * i + pattern) % 7) < 3 + pattern THEN 1 ELSE 0))

\* The mantissas: one bit, all 23 bits, and a mixed one; with and without
\* the sign bit.
CompactWords == {1, 65535, 8388607, 4660 * 256 + 86, 8388608 + 255}

ShiftLeftCall(pattern, bitsToShift, build) ==
  /\ un.fn = NoCall.fn
  /\ un' = [fn |-> "shiftLeft", args |-> <<ShiftHash(pattern), bitsToShift>>,
            result |-> shiftLeft(ShiftHash(pattern), bitsToShift, build)]
  /\ UNCHANGED nonUnitVars

FromCompactCall(nSize, low, build) ==
  /\ un.fn = NoCall.fn
  /\ un' = [fn |-> "from_compact", args |-> <<nSize * (2 ^ 24) + low>>,
            result |-> from_compact(nSize * (2 ^ 24) + low, build).res]
  /\ UNCHANGED nonUnitVars

CompactReturn ==
  /\ un.fn \in {"shiftLeft", "from_compact"}
  /\ un' = NoCall
  /\ UNCHANGED nonUnitVars

NextCompact ==
  \/ \E pattern \in 0..MaxShiftPattern, bitsToShift \in 0..MaxShift, build \in Builds :
       ShiftLeftCall(pattern, bitsToShift, build)
  \/ \E nSize \in 0..MaxCompactSize, low \in CompactWords, build \in Builds :
       FromCompactCall(nSize, low, build)
  \/ CompactReturn

(***************************************************************************)
(* C30                                                                     *)
(***************************************************************************)
\* Bit j (0 the least significant) of the number whose 32 bytes, the most
\* significant first, are the bytes of the hash in memory.
NumberBit(hash, j) ==
  LET byte == 31 - (j \div 8)
  IN  hash[(byte \div 8) + 1][8 * (byte % 8) + (j % 8) + 1]

\* C30: shiftLeft(h, n) leaves the number h stands for shifted left by n
\* bits and cut to 256 bits, for every n below 256, multiples of 64 among
\* them; so from_compact of a size byte above 3 gives the mantissa times
\* 256^(size - 3), cut to 256 bits.
C30_ShiftLeftIsShiftOfNumber ==
  /\ (un.fn = "shiftLeft" /\ un.args[2] < 256) =>
       \A j \in 0..255 :
         NumberBit(un.result, j)
           = IF j >= un.args[2] THEN NumberBit(un.args[1], j - un.args[2]) ELSE 0
  /\ (un.fn = "from_compact" /\ un.args[1] \div (2 ^ 24) > 3) =>
       LET shift == 8 * ((un.args[1] \div (2 ^ 24)) - 3)
           mantissa == un.args[1] % (2 ^ 23)
       IN  \A j \in 0..255 :
             NumberBit(un.result, j)
               = IF j >= shift /\ j - shift < 23
                 THEN (mantissa \div (2 ^ (j - shift))) % 2
                 ELSE 0

(***************************************************************************)
(* The specifications.  Every part starts from its state after             *)
(* construction; a specification takes the steps of one part.              *)
(***************************************************************************)
InitProg == InitKern /\ InitShuffle

Init == InitRegistry /\ InitDataset /\ InitSeed /\ InitVerify /\ InitProg /\ InitUnit
SpecRegistry == Init /\ [][NextRegistry]_vars

SpecHash == Init /\ [][NextHash]_vars

SpecLookup == Init /\ [][NextLookup]_vars

SpecSeed == Init /\ [][NextSeed]_vars

SpecVerify == Init /\ [][NextVerify]_vars

SpecKern == Init /\ [][NextKern]_vars

SpecShuffle == Init /\ [][NextShuffle]_vars

SpecSizes == Init /\ [][NextSizes]_vars

SpecBoundary == Init /\ [][NextBoundary]_vars

SpecItems == Init /\ [][NextItems]_vars

SpecMix == Init /\ [][NextMix]_vars

SpecSources == Init /\ [][NextSources]_vars

SpecMerge == Init /\ [][NextMerge]_vars

SpecContext == Init /\ [][NextContext]_vars

SpecCompare == Init /\ [][NextCompare]_vars
SpecSponge == Init /\ [][NextSponge]_vars
SpecSchedule == Init /\ [][NextSchedule]_vars
SpecIndexes == Init /\ [][NextIndexes]_vars
SpecEthashVerify == Init /\ [][NextEthashVerify]_vars
SpecSubmit == Init /\ [][NextSubmit]_vars
SpecCompact == Init /\ [][NextCompact]_vars

====
